---- MODULE Spec2Model ----
(***************************************************************************)
(* Patch engine (triage/patcher.py), recipe builders (triage/report.py),   *)
(* gate checks (triage/gate_checks.py), differ (triage/diff.py), pattern   *)
(* classifier (triage/patterns.py), cloud probe (triage/graph_probe.py)    *)
(* and pipeline (triage/agents.py) of the web-excel repair triage tool.    *)
(*                                                                         *)
(* Byte strings are sequences of byte values 0..255, Python str values are *)
(* sequences of Unicode code points.  An exception raised by a helper is   *)
(* the record [ok |-> FALSE, err |-> <kind>]; a normal return is           *)
(* [ok |-> TRUE, val |-> <value>].                                         *)
(*                                                                         *)
(* Specifications:                                                         *)
(*   Spec        apply_recipe, one action per loop iteration / block       *)
(*   SpecLR      _literal_replace as a pure function on enumerated inputs  *)
(*   SpecMerge   merge_recipes on up to two recipes                        *)
(*   SpecGates   recipe_from_gates, one action per numbered step           *)
(*   SpecStyles  check_styles_dxf, recipe_from_gates, apply_recipe and     *)
(*               check_styles_dxf again on the patched archive             *)
(*   SpecReport  GateReport.failing_gates and GateReport.pass_all          *)
(*   SpecCalc    check_calcchain_invalid                                   *)
(*   SpecShared  check_shared_ref (out-of-bounds list)                     *)
(*   SpecRels    check_rels_missing                                        *)
(*   SpecPipeline  TriageOrchestrator.run_full_pipeline, phase by phase    *)
(*   SpecProbe   probe_upload_and_test, one action per HTTP step           *)
(*   SpecDiff    diff_packages and DiffReport.summary                      *)
(*   SpecPatterns  detect_all over the seven detectors                     *)
(*   SpecTriage  run_all, recipe_from_gates, apply_recipe, run_all again   *)
(*   SpecRaw     apply_recipe on recipes outside the schema                *)
(***************************************************************************)
EXTENDS Integers, Sequences, FiniteSets, TLC

VARIABLES
    archive,    \* the source ZIP: [names |-> namelist(), data |-> name -> bytes]
    recipe,     \* recipe["patches"], a sequence of patch dicts
    pc,         \* position inside apply_recipe
    i,          \* number of patches the for loop has consumed
    parts,      \* parts: Dict[str, bytes]
    deleted,    \* deleted: set[str]
    errors,     \* errors: List[str]   (entries <<patch index, failure kind>>)
    skipped,    \* skipped: List[str]  (entries: patch index of the stub)
    output,     \* the file at output_path: NoFile or [names, data]
    outcome,    \* how apply_recipe ended
    lr,         \* harness state of the pure-function specification SpecLR
    fn          \* state of the report.py / gate_checks.py specifications

vars == <<archive, recipe, pc, i, parts, deleted, errors, skipped, output, outcome, lr, fn>>

engineVars == <<archive, recipe, pc, i, parts, deleted, errors, skipped, output, outcome>>

----------------------------------------------------------------------------
(* Bounds *)

MaxOps == 2      \* longest recipe
MaxOcc == 2      \* largest occurrence field in a recipe
MaxData == 3     \* longest part content in SpecLR
MaxPat == 2      \* longest match / replacement in SpecLR
MaxN == 3        \* largest occurrence in SpecLR

----------------------------------------------------------------------------
(* Python primitives *)

Min(S) == CHOOSE x \in S : \A y \in S : x <= y

\* data[s:e] with 0 <= s, e already normalised
Slice(data, s, e) == IF e <= s THEN <<>> ELSE SubSeq(data, s + 1, e)

\* normalisation of a slice bound: negative bounds count from the end
Norm(data, k) ==
    IF k < 0 THEN (IF k + Len(data) < 0 THEN 0 ELSE k + Len(data))
    ELSE IF k > Len(data) THEN Len(data) ELSE k

\* data[:e]
SliceTo(data, e) == Slice(data, 0, Norm(data, e))

\* data[s:]
SliceFrom(data, s) == Slice(data, Norm(data, s), Len(data))

\* bytes.find(sub, start) for start >= 0
Find(data, sub, start) ==
    LET hits == {k \in start..(Len(data) - Len(sub)) :
                    Slice(data, k, k + Len(sub)) = sub}
    IN  IF hits = {} THEN -1 ELSE Min(hits)

\* UTF-8 encoding of one code point below 2048
Utf8Char(c) == IF c < 128 THEN <<c>> ELSE <<192 + (c \div 64), 128 + (c % 64)>>

RECURSIVE Utf8(_)
Utf8(s) == IF s = <<>> THEN <<>> ELSE Utf8Char(Head(s)) \o Utf8(Tail(s))

\* _encode(s) for a str argument
_encode(s) == Utf8(s)

\* dict.get(key, default)
Get(d, key, default) == IF key \in DOMAIN d THEN d[key] ELSE default

Ok(v) == [ok |-> TRUE, val |-> v]
Raise(kind) == [ok |-> FALSE, err |-> kind]

----------------------------------------------------------------------------
(* triage/patcher.py *)

REVIEW_REQUIRED == <<60,82,69,86,73,69,87,95,82,69,81,85,73,82,69,68,62>>
FILL_IN_LINEFEED_VALUE ==
    <<60,70,73,76,76,95,73,78,95,76,73,78,69,70,69,69,68,95,86,65,76,85,69,62>>
FILL_IN_CLEAN_VALUE ==
    <<60,70,73,76,76,95,73,78,95,67,76,69,65,78,95,86,65,76,85,69,62>>

STUB_PLACEHOLDERS == {REVIEW_REQUIRED, FILL_IN_LINEFEED_VALUE, FILL_IN_CLEAN_VALUE}

\* a loop that searches again from the last hit instead of one past it
RECURSIVE LRLoopSameStart(_, _, _, _)
LRLoopSameStart(data, match, k, idx) ==
    IF k <= 0 THEN idx
    ELSE LET j == Find(data, match, IF idx < 0 THEN 0 ELSE idx)
         IN  IF j = -1 THEN -2 ELSE LRLoopSameStart(data, match, k - 1, j)

\* the for loop of _literal_replace: k iterations left, idx the last hit;
\* -2 stands for the PatchError raised inside the loop
RECURSIVE LRLoop(_, _, _, _)
LRLoop(data, match, k, idx) ==
    IF k <= 0 THEN idx
    ELSE LET j == Find(data, match, idx + 1)
         IN  IF j = -1 THEN -2 ELSE LRLoop(data, match, k - 1, j)

\* a suffix that starts one byte after the hit, whatever the match length
_literal_replace_suffix_off(data, match, replacement, occurrence) ==
    LET idx == LRLoop(data, match, occurrence, -1)
    IN  IF idx = -2 THEN Raise("match_not_found")
        ELSE Ok(SliceTo(data, idx) \o replacement \o SliceFrom(data, idx + 1))

_literal_replace(data, match, replacement, occurrence) ==
    LET idx == LRLoop(data, match, occurrence, -1)
    IN  IF idx = -2 THEN Raise("match_not_found")
        ELSE Ok(SliceTo(data, idx) \o replacement \o SliceFrom(data, idx + Len(match)))

\* a position check that falls back to "before" instead of raising
_append_block_default_before(data, anchor, block, position) ==
    LET idx == Find(data, anchor, 0)
    IN  IF idx = -1 THEN Raise("anchor_not_found")
        ELSE IF position = "after"
             THEN Ok(SliceTo(data, idx + Len(anchor)) \o block
                        \o SliceFrom(data, idx + Len(anchor)))
        ELSE Ok(SliceTo(data, idx) \o block \o SliceFrom(data, idx))

_append_block(data, anchor, block, position) ==
    LET idx == Find(data, anchor, 0)
    IN  IF idx = -1 THEN Raise("anchor_not_found")
        ELSE IF position = "before"
             THEN Ok(SliceTo(data, idx) \o block \o SliceFrom(data, idx))
        ELSE IF position = "after"
             THEN Ok(SliceTo(data, idx + Len(anchor)) \o block
                        \o SliceFrom(data, idx + Len(anchor)))
        ELSE Raise("unknown_position")

\* a missing dict key read with .get(key)
None == "None"

\* "return None", the deletion signal of _apply_one
OkNone == [ok |-> TRUE, none |-> TRUE]

IsNone(r) == "none" \in DOMAIN r

_apply_one(data, patch) ==
    LET op == Get(patch, "operation", None)
    IN  IF op = "literal_replace"
        THEN _literal_replace(data, _encode(patch["match"]),
                              _encode(Get(patch, "replacement", <<>>)),
                              Get(patch, "occurrence", 1))
        ELSE IF op = "append_block"
        THEN _append_block(data, _encode(patch["anchor"]), _encode(patch["block"]),
                           Get(patch, "position", "before"))
        ELSE IF op = "delete_part" THEN OkNone
        ELSE IF op = "set_part" THEN Ok(_encode(patch["content"]))
        ELSE Raise("unknown_operation")

\* a stub test that knows only the <REVIEW_REQUIRED> sentinel
IsStubReviewOnly(patch) ==
    /\ Get(patch, "operation", None) = "literal_replace"
    /\ Get(patch, "match", <<>>) = REVIEW_REQUIRED

\* if op == "literal_replace" and patch.get("match", "") in STUB_PLACEHOLDERS
IsStub(patch) ==
    /\ Get(patch, "operation", None) = "literal_replace"
    /\ Get(patch, "match", <<>>) \in STUB_PLACEHOLDERS

\* a loop body that stores the patched bytes under every part name
LoopBodyOverwriteAll(s, patch) ==
    LET pid  == Get(patch, "id", "?")
        part == Get(patch, "part", None)
        op   == Get(patch, "operation", None)
    IN  IF IsStub(patch)
        THEN [s EXCEPT !.skipped = Append(@, pid)]
        ELSE IF op = "delete_part"
        THEN IF part \in DOMAIN s.parts
             THEN [s EXCEPT !.deleted = @ \cup {part}]
             ELSE [s EXCEPT !.errors = Append(@, <<pid, "delete_absent">>)]
        ELSE IF part \notin DOMAIN s.parts
        THEN [s EXCEPT !.errors = Append(@, <<pid, "part_not_found">>)]
        ELSE LET result == _apply_one(s.parts[part], patch)
             IN  IF ~result.ok
                 THEN [s EXCEPT !.errors = Append(@, <<pid, result.err>>)]
                 ELSE IF IsNone(result) THEN s
                 ELSE [s EXCEPT !.parts = [n \in DOMAIN s.parts |-> result.val]]

\* One iteration of the for loop of apply_recipe on the loop state
\* s = [parts, deleted, errors, skipped]; the patch's position in the recipe
\* stands for its "[pid]" prefix in the recorded messages.
LoopBody(s, patch) ==
    LET pid  == Get(patch, "id", "?")
        part == Get(patch, "part", None)
        op   == Get(patch, "operation", None)
    IN  IF IsStub(patch)
        THEN [s EXCEPT !.skipped = Append(@, pid)]
        ELSE IF op = "delete_part"
        THEN IF part \in DOMAIN s.parts
             THEN [s EXCEPT !.deleted = @ \cup {part}]
             ELSE [s EXCEPT !.errors = Append(@, <<pid, "delete_absent">>)]
        ELSE IF part \notin DOMAIN s.parts
        THEN [s EXCEPT !.errors = Append(@, <<pid, "part_not_found">>)]
        ELSE LET result == _apply_one(s.parts[part], patch)
             IN  IF ~result.ok
                 THEN [s EXCEPT !.errors = Append(@, <<pid, result.err>>)]
                 ELSE IF IsNone(result) THEN s
                 ELSE [s EXCEPT !.parts[part] = result.val]

\* the for loop of apply_recipe run over a whole patch list
RECURSIVE RunFrom(_, _)
RunFrom(s, ops) ==
    IF ops = <<>> THEN s ELSE RunFrom(LoopBody(s, Head(ops)), Tail(ops))

\* the loop state apply_recipe reaches from a source archive and a patch list
RunAll(arch, ops) ==
    RunFrom([parts |-> arch.data, deleted |-> {}, errors |-> <<>>, skipped |-> <<>>], ops)

\* a write that forgets the deleted set
WriteZipKeepsDeleted(names, p, del) ==
    [exists |-> TRUE, names |-> names, data |-> p]

\* the ZIP written at output_path: entries in dict order, deletions left out
WriteZip(names, p, del) ==
    [exists |-> TRUE,
     names  |-> SelectSeq(names, LAMBDA n : n \notin del),
     data   |-> [n \in (DOMAIN p) \ del |-> p[n]]]

\* nothing has been written at output_path
NoFile == [exists |-> FALSE]
OutputPath == "candidate_patched.xlsx"

----------------------------------------------------------------------------
(* Inputs of apply_recipe: source archives of one or two parts and recipes  *)
(* whose patches follow the recipe schema, i.e. carry every field their     *)
(* operation reads (an operation name or a position outside the schema      *)
(* included).  occurrence ranges over 0..MaxOcc.                            *)

STYLES == "xl/styles.xml"
CALCCHAIN == "xl/calcChain.xml"
PartNames == {STYLES, CALCCHAIN}

\* str values of the recipes: "a", "b", "\u00e9" (two bytes in UTF-8), "b\u00e9"
StrA == <<97>>
StrB == <<98>>
StrE == <<233>>
StrBE == <<98, 233>>

\* contents of the parts of the source archive
StylesContents == {<<97, 98, 97>>, Utf8(FILL_IN_LINEFEED_VALUE) \o <<97>>}
CalcChainContents == {<<97>>}

Archives ==
    {[names |-> <<STYLES>>, data |-> [n \in {STYLES} |-> c]] : c \in StylesContents}
    \cup {[names |-> <<STYLES, CALCCHAIN>>,
           data |-> [n \in PartNames |-> IF n = STYLES THEN c ELSE d]] :
             c \in StylesContents, d \in CalcChainContents}

LitOps ==
    [part : PartNames, operation : {"literal_replace"},
     match : {StrB}, replacement : {StrE}, occurrence : 0..MaxOcc]

\* the stubs report.py emits: REVIEW_REQUIRED on any part, FILL_IN_* on one part
StubOps ==
    [part : PartNames, operation : {"literal_replace"},
     match : {REVIEW_REQUIRED}, replacement : {REVIEW_REQUIRED}]
    \cup [part : {STYLES}, operation : {"literal_replace"},
          match : {FILL_IN_LINEFEED_VALUE, FILL_IN_CLEAN_VALUE},
          replacement : {FILL_IN_CLEAN_VALUE}]

AppendOps ==
    [part : PartNames, operation : {"append_block"},
     anchor : {StrB}, block : {StrB}, position : {"before", "after", "middle"}]

DeleteOps == [part : PartNames, operation : {"delete_part"}]

SetOps == [part : PartNames, operation : {"set_part"}, content : {StrBE}]

UnknownOps == [part : PartNames, operation : {"rename_part"}]

Ops == LitOps \cup StubOps \cup AppendOps \cup DeleteOps \cup SetOps \cup UnknownOps

\* a patch dict with its "id" key
WithId(patch, id) ==
    [k \in DOMAIN patch \cup {"id"} |-> IF k = "id" THEN id ELSE patch[k]]

\* recipes of at most MaxOps patches; the id of a patch is its position
Recipes ==
    UNION {{[k \in 1..n |-> WithId(f[k], k)] : f \in [1..n -> Ops]} : n \in 0..MaxOps}

----------------------------------------------------------------------------
(* apply_recipe as a state machine *)

LROff == [stage |-> "off"]

FnOff == [stage |-> "off"]

Init ==
    /\ archive \in Archives
    /\ recipe \in Recipes
    /\ pc = "loop"
    /\ i = 0
    /\ parts = archive.data
    /\ deleted = {}
    /\ errors = <<>>
    /\ skipped = <<>>
    /\ output = NoFile
    /\ outcome = [kind |-> "running"]
    /\ lr = LROff
    /\ fn = FnOff

LoopState == [parts |-> parts, deleted |-> deleted, errors |-> errors, skipped |-> skipped]

\* a loop that walks the patches from the last to the first
IterateReversed ==
    /\ pc = "loop"
    /\ i < Len(recipe)
    /\ LET s == LoopBody(LoopState, recipe[Len(recipe) - i])
       IN  /\ parts' = s.parts
           /\ deleted' = s.deleted
           /\ errors' = s.errors
           /\ skipped' = s.skipped
    /\ i' = i + 1
    /\ UNCHANGED <<archive, recipe, pc, output, outcome, lr, fn>>

\* for patch in recipe.get("patches", []): one iteration
Iterate ==
    /\ pc = "loop"
    /\ i < Len(recipe)
    /\ LET s == LoopBody(LoopState, recipe[i + 1])
       IN  /\ parts' = s.parts
           /\ deleted' = s.deleted
           /\ errors' = s.errors
           /\ skipped' = s.skipped
    /\ i' = i + 1
    /\ UNCHANGED <<archive, recipe, pc, output, outcome, lr, fn>>

\* a write that is skipped once a hard error was recorded
WriteOutputUnlessErrors ==
    /\ pc = "loop"
    /\ i = Len(recipe)
    /\ output' = IF errors # <<>> THEN output ELSE WriteZip(archive.names, parts, deleted)
    /\ pc' = "decide"
    /\ UNCHANGED <<archive, recipe, i, parts, deleted, errors, skipped, outcome, lr, fn>>

\* the loop is exhausted: write the output ZIP
WriteOutput ==
    /\ pc = "loop"
    /\ i = Len(recipe)
    /\ output' = WriteZip(archive.names, parts, deleted)
    /\ pc' = "decide"
    /\ UNCHANGED <<archive, recipe, i, parts, deleted, errors, skipped, outcome, lr, fn>>

\* the error check placed after the stub check
RaisePatchErrorAfterStubs ==
    /\ pc = "decide"
    /\ errors # <<>>
    /\ outcome' = IF skipped # <<>>
                  THEN [kind |-> "PatchWarning", output_path |-> OutputPath,
                        skipped |-> skipped]
                  ELSE [kind |-> "PatchError", errors |-> errors]
    /\ pc' = "done"
    /\ UNCHANGED <<archive, recipe, i, parts, deleted, errors, skipped, output, lr, fn>>

\* if errors: raise PatchError
RaisePatchError ==
    /\ pc = "decide"
    /\ errors # <<>>
    /\ outcome' = [kind |-> "PatchError", errors |-> errors]
    /\ pc' = "done"
    /\ UNCHANGED <<archive, recipe, i, parts, deleted, errors, skipped, output, lr, fn>>

\* if skipped: raise PatchWarning(output_path, skipped)
RaisePatchWarning ==
    /\ pc = "decide"
    /\ errors = <<>>
    /\ skipped # <<>>
    /\ outcome' = [kind |-> "PatchWarning", output_path |-> OutputPath,
                   skipped |-> skipped]
    /\ pc' = "done"
    /\ UNCHANGED <<archive, recipe, i, parts, deleted, errors, skipped, output, lr, fn>>

\* return output_path
Return ==
    /\ pc = "decide"
    /\ errors = <<>>
    /\ skipped = <<>>
    /\ outcome' = [kind |-> "returned", output_path |-> OutputPath]
    /\ pc' = "done"
    /\ UNCHANGED <<archive, recipe, i, parts, deleted, errors, skipped, output, lr, fn>>

Next == Iterate \/ WriteOutput \/ RaisePatchError \/ RaisePatchWarning \/ Return

Spec == Init /\ [][Next]_vars

TypeOK ==
    /\ pc \in {"loop", "decide", "done"}
    /\ i \in 0..Len(recipe)
    /\ DOMAIN parts = DOMAIN archive.data
    /\ deleted \subseteq DOMAIN parts

----------------------------------------------------------------------------
(* _literal_replace on enumerated byte strings: apply it, then apply the   *)
(* inverse replacement (match and replacement swapped, same occurrence)    *)

RECURSIVE BytesUpTo(_)
BytesUpTo(n) ==
    IF n = 0 THEN {<<>>}
    ELSE LET shorter == BytesUpTo(n - 1)
         IN  shorter \cup {Append(x, c) : x \in {y \in shorter : Len(y) = n - 1},
                                           c \in {97, 98}}

EngineOff ==
    /\ archive = [names |-> <<>>, data |-> <<>>]
    /\ recipe = <<>>
    /\ pc = "off"
    /\ i = 0
    /\ parts = <<>>
    /\ deleted = {}
    /\ errors = <<>>
    /\ skipped = <<>>
    /\ output = NoFile
    /\ outcome = [kind |-> "off"]

InitLR ==
    /\ EngineOff
    /\ fn = FnOff
    /\ lr \in [stage : {"input"}, data : BytesUpTo(MaxData), match : BytesUpTo(MaxPat),
               replacement : BytesUpTo(MaxPat), occurrence : 0..MaxN]

\* first = _literal_replace(data, match, replacement, occurrence)
LRApply ==
    /\ lr.stage = "input"
    /\ lr' = [stage |-> "applied", data |-> lr.data, match |-> lr.match,
              replacement |-> lr.replacement, occurrence |-> lr.occurrence,
              first |-> _literal_replace(lr.data, lr.match, lr.replacement,
                                         lr.occurrence)]
    /\ UNCHANGED <<engineVars, fn>>

\* second = _literal_replace(first, replacement, match, occurrence)
LRInverse ==
    /\ lr.stage = "applied"
    /\ lr.first.ok
    /\ lr' = [stage |-> "inverted", data |-> lr.data, match |-> lr.match,
              replacement |-> lr.replacement, occurrence |-> lr.occurrence,
              first |-> lr.first,
              second |-> _literal_replace(lr.first.val, lr.replacement, lr.match,
                                          lr.occurrence)]
    /\ UNCHANGED <<engineVars, fn>>

NextLR == LRApply \/ LRInverse

SpecLR == InitLR /\ [][NextLR]_vars

----------------------------------------------------------------------------
(* Properties of apply_recipe (specification Spec)                         *)

\* the output ZIP has been written and the outcome is being or was decided
Written == pc \in {"decide", "done"}

\* C1: apply_recipe ends in exactly one of three outcomes, decided only after
\* every op was processed and the output written: PatchError iff a hard error
\* was recorded (also when stubs were skipped), PatchWarning with the output
\* path and the skipped list iff no hard error and at least one skipped stub,
\* the returned output path iff neither.
C1_ThreeOutcomes ==
    /\ outcome.kind \in {"running", "PatchError", "PatchWarning", "returned"}
    /\ outcome.kind # "running" =>
          /\ pc = "done"
          /\ i = Len(recipe)
          /\ output.exists
    /\ pc = "done" =>
          /\ outcome.kind # "running"
          /\ outcome.kind = "PatchError" <=> errors # <<>>
          /\ outcome.kind = "PatchWarning" <=> (errors = <<>> /\ skipped # <<>>)
          /\ outcome.kind = "returned" <=> (errors = <<>> /\ skipped = <<>>)
          /\ outcome.kind = "PatchError" => outcome.errors = errors
          /\ outcome.kind = "PatchWarning" =>
                (outcome.output_path = OutputPath /\ outcome.skipped = skipped)
          /\ outcome.kind = "returned" => outcome.output_path = OutputPath

\* a run that recorded a hard error and skipped a stub ended in PatchError
C1_Witness ==
    /\ pc = "done"
    /\ errors # <<>>
    /\ skipped # <<>>
    /\ outcome.kind = "PatchError"

\* C2: the output archive is written, from the final part map, before
\* apply_recipe raises or returns, for every recipe: no run stops before the
\* write, and a run with an unreachable literal_replace match ends in
\* PatchError with the output in place.
C2_OutputAlwaysWritten ==
    /\ pc # "done" =>
          \/ pc = "loop" /\ i < Len(recipe)
          \/ ENABLED (WriteOutput \/ RaisePatchError \/ RaisePatchWarning \/ Return)
    /\ Written <=> output.exists
    /\ outcome.kind # "running" => output.exists
    /\ output.exists => output = WriteZip(archive.names, parts, deleted)
    /\ (pc = "done" /\ \E k \in 1..Len(errors) : errors[k][2] = "match_not_found") =>
          (outcome.kind = "PatchError" /\ output.exists)
    /\ (pc = "done" /\ errors = <<>> /\ skipped # <<>>) =>
          (outcome.kind = "PatchWarning" /\ output.exists)

\* PatchError was raised for an unreachable match and the output is in place
C2_Witness ==
    /\ pc = "done"
    /\ outcome.kind = "PatchError"
    /\ \E k \in 1..Len(errors) : errors[k][2] = "match_not_found"
    /\ output.exists

\* the reserved sentinels, as the recipe contract lists them
Sentinels == {REVIEW_REQUIRED, FILL_IN_LINEFEED_VALUE, FILL_IN_CLEAN_VALUE}

\* a literal_replace whose match is a reserved sentinel
HasSentinel(op) == op.operation = "literal_replace" /\ op.match \in Sentinels

\* the offsets at which the bytes m occur in data
Occ(data, m) == {k \in 0..(Len(data) - Len(m)) : SubSeq(data, k + 1, k + Len(m)) = m}

\* C3: a literal_replace whose match is a reserved sentinel is never attempted
\* and mutates nothing: the output and the recorded errors are those of the
\* recipe with the stubs removed, each stub is in the skipped list exactly once
\* (in recipe order), a stubs-only recipe leaves the archive byte-identical and
\* raises PatchWarning, and stubs next to ops that all succeed raise
\* PatchWarning, not PatchError.
C3_StubsNeverApplied ==
    Written =>
        LET real  == SelectSeq(recipe, LAMBDA op : ~HasSentinel(op))
            stubs == SelectSeq(recipe, HasSentinel)
            r     == RunAll(archive, real)
        IN  /\ output = WriteZip(archive.names, r.parts, r.deleted)
            /\ errors = r.errors
            /\ skipped = [k \in 1..Len(stubs) |-> stubs[k].id]
            /\ (real = <<>> /\ stubs # <<>>) =>
                  /\ output.names = archive.names
                  /\ output.data = archive.data
                  /\ pc = "done" => outcome.kind = "PatchWarning"
            /\ (stubs # <<>> /\ r.errors = <<>> /\ pc = "done") =>
                  outcome.kind = "PatchWarning"

\* a real op changed one part, then a stub whose sentinel text occurs in its
\* target part was skipped, and PatchWarning was raised
C3_Witness ==
    /\ pc = "done"
    /\ Len(recipe) = 2
    /\ ~HasSentinel(recipe[1])
    /\ HasSentinel(recipe[2])
    /\ recipe[2].match # recipe[2].replacement
    /\ recipe[2].part \in DOMAIN archive.data
    /\ Occ(archive.data[recipe[2].part], Utf8(recipe[2].match)) # {}
    /\ parts # archive.data
    /\ parts[recipe[2].part] = archive.data[recipe[2].part]
    /\ outcome.kind = "PatchWarning"
    /\ Len(outcome.skipped) = 1

\* the per-op failure the recipe contract names for op on the part map p,
\* "none" when the op is not one of those failures
Failure(op, p) ==
    IF op.operation = "delete_part"
    THEN IF op.part \in DOMAIN p THEN "none" ELSE "delete_absent"
    ELSE IF op.part \notin DOMAIN p THEN "part_not_found"
    ELSE IF op.operation = "literal_replace"
    THEN IF op.occurrence >= 1
            /\ Cardinality(Occ(p[op.part], Utf8(op.match))) < op.occurrence
         THEN "match_not_found" ELSE "none"
    ELSE IF op.operation = "append_block"
    THEN IF Occ(p[op.part], Utf8(op.anchor)) = {} THEN "anchor_not_found"
         ELSE IF op.position \notin {"before", "after"} THEN "unknown_position"
         ELSE "none"
    ELSE IF op.operation = "set_part" THEN "none"
    ELSE "unknown_operation"

C4_State ==
    /\ Written => i = Len(recipe)
    /\ (pc = "done" /\ errors # <<>>) =>
          /\ outcome = [kind |-> "PatchError", errors |-> errors]
          /\ output.exists
    /\ ~output.exists => outcome.kind = "running"

C4_Step ==
    (pc = "loop" /\ i < Len(recipe)) =>
        LET op == recipe[i + 1]
            f  == IF HasSentinel(op) THEN "none" ELSE Failure(op, parts)
        IN  /\ pc' = "loop"
            /\ i' = i + 1
            /\ f # "none" =>
                  /\ errors' = Append(errors, <<op.id, f>>)
                  /\ parts' = parts
                  /\ deleted' = deleted
                  /\ skipped' = skipped
            /\ f = "none" => errors' = errors

\* C4: a per-op failure (match not found, anchor not found, invalid position,
\* delete_part on an absent entry, unknown operation, named part absent) never
\* aborts the loop: the failing op is recorded and changes no part, the loop
\* goes on to the next op until all are processed, and the recorded failures
\* are raised together in one PatchError after the output is written.
C4_FailuresNeverAbort == []C4_State /\ [][C4_Step]_vars

\* two ops failed in different ways and both failures were raised together
C4_Witness ==
    /\ pc = "done"
    /\ Len(errors) = 2
    /\ errors[1][2] # errors[2][2]
    /\ outcome.kind = "PatchError"
    /\ outcome.errors = errors
    /\ output.exists
    /\ output.data = archive.data

\* some op of the recipe names the part n
Named(n) == \E k \in 1..Len(recipe) : recipe[k].part = n

DependentPair(first, second) ==
    /\ first.operation = "set_part"
    /\ second.operation = "literal_replace"
    /\ ~HasSentinel(second)
    /\ second.occurrence = 1
    /\ first.part = second.part
    /\ first.part \in DOMAIN archive.data
    /\ Occ(archive.data[first.part], Utf8(second.match)) = {}
    /\ Occ(Utf8(first.content), Utf8(second.match)) # {}

\* bytes with the first occurrence of m replaced by r
ReplaceFirst(data, m, r) ==
    LET k == CHOOSE x \in Occ(data, m) : \A y \in Occ(data, m) : x <= y
    IN  SubSeq(data, 1, k) \o r \o SubSeq(data, k + Len(m) + 1, Len(data))

\* C6: ops are applied strictly in list order, each on the bytes the earlier
\* ops left: a literal_replace whose match exists only because the op before
\* it inserted it succeeds, and the same two ops in the reverse order record
\* a match-not-found error for the literal_replace.
C6_RecipeOrder ==
    Written =>
        /\ LoopState = RunAll(archive, recipe)
        /\ (Len(recipe) = 2 /\ DependentPair(recipe[1], recipe[2])) =>
              /\ errors = <<>>
              /\ parts[recipe[1].part] =
                    ReplaceFirst(Utf8(recipe[1].content), Utf8(recipe[2].match),
                                 Utf8(recipe[2].replacement))
        /\ (Len(recipe) = 2 /\ DependentPair(recipe[2], recipe[1])) =>
              /\ errors = << <<recipe[1].id, "match_not_found">> >>
              /\ parts[recipe[2].part] = Utf8(recipe[2].content)

\* the dependent literal_replace ran after the set_part and succeeded
C6_Witness ==
    /\ Written
    /\ Len(recipe) = 2
    /\ DependentPair(recipe[1], recipe[2])
    /\ errors = <<>>
    /\ parts[recipe[1].part] # Utf8(recipe[1].content)

\* no hard error was recorded for the op with this id
NoErrorFor(id) == \A k \in 1..Len(errors) : errors[k][1] # id

\* the set_part ops whose part no other op of the recipe names
LoneSetParts ==
    {k \in 1..Len(recipe) :
        /\ recipe[k].operation = "set_part"
        /\ \A j \in 1..Len(recipe) : j # k => recipe[j].part # recipe[k].part}

\* C9: set_part replaces the named entry with the verbatim content bytes when
\* it exists and creates it when it is absent; either way the output holds
\* the entry with exactly the content and no hard error is recorded.
C9_SetPartReplacesOrCreates ==
    Written =>
        \A k \in LoneSetParts :
            /\ recipe[k].part \in DOMAIN output.data
            /\ output.data[recipe[k].part] = Utf8(recipe[k].content)
            /\ NoErrorFor(recipe[k].id)

\* the half of C9 the code implements: set_part on an entry of the archive
C9_SetPartReplacesExisting ==
    Written =>
        \A k \in LoneSetParts :
            recipe[k].part \in DOMAIN archive.data =>
                /\ recipe[k].part \in DOMAIN output.data
                /\ output.data[recipe[k].part] = Utf8(recipe[k].content)
                /\ NoErrorFor(recipe[k].id)

\* the elements of a sequence
Range(seq) == {seq[k] : k \in 1..Len(seq)}

\* the parts some delete_part of the recipe names
DeleteTargets ==
    {recipe[k].part : k \in {j \in 1..Len(recipe) : recipe[j].operation = "delete_part"}}

\* C10: after a recipe with a delete_part on a part of the input, the entry
\* is not in the output's entry list, the op records no error, and every
\* entry no delete_part names is retained.
C10_DeletePartRemovesEntry ==
    Written =>
        /\ \A k \in 1..Len(recipe) :
              (recipe[k].operation = "delete_part"
                  /\ recipe[k].part \in DOMAIN archive.data) =>
                    /\ recipe[k].part \notin Range(output.names)
                    /\ recipe[k].part \notin DOMAIN output.data
                    /\ NoErrorFor(recipe[k].id)
        /\ \A n \in Range(archive.names) :
              n \notin DeleteTargets => n \in Range(output.names)
        /\ Range(output.names) = DOMAIN output.data

\* xl/calcChain.xml was deleted, xl/styles.xml retained, and the path returned
C10_Witness ==
    /\ pc = "done"
    /\ recipe # <<>>
    /\ recipe[1].operation = "delete_part"
    /\ recipe[1].part = CALCCHAIN
    /\ archive.names = <<STYLES, CALCCHAIN>>
    /\ output.names = <<STYLES>>
    /\ outcome.kind = "returned"

----------------------------------------------------------------------------
(* Properties of _literal_replace (specification SpecLR)                   *)

\* the offset of the n-th (1-based) occurrence of m in data
NthOcc(data, m, n) ==
    CHOOSE x \in Occ(data, m) : Cardinality({y \in Occ(data, m) : y < x}) = n - 1

LRCalled == lr.stage \in {"applied", "inverted"}

\* C7: with occurrence N >= 1, _literal_replace replaces exactly the N-th
\* occurrence of match: the result is the bytes before it, the replacement,
\* and the bytes after it; with fewer than N occurrences it raises PatchError.
C7_NthOccurrence ==
    (LRCalled /\ lr.occurrence >= 1) =>
        IF Cardinality(Occ(lr.data, lr.match)) >= lr.occurrence
        THEN LET at == NthOcc(lr.data, lr.match, lr.occurrence)
             IN  /\ lr.first.ok
                 /\ lr.first.val =
                       SubSeq(lr.data, 1, at) \o lr.replacement
                          \o SubSeq(lr.data, at + Len(lr.match) + 1, Len(lr.data))
        ELSE lr.first = [ok |-> FALSE, err |-> "match_not_found"]

\* the second of several occurrences was replaced
C7_Witness ==
    /\ LRCalled
    /\ lr.occurrence = 2
    /\ lr.match # <<>>
    /\ lr.match # lr.replacement
    /\ Cardinality(Occ(lr.data, lr.match)) >= 2
    /\ lr.first.ok
    /\ SubSeq(lr.first.val, 1, NthOcc(lr.data, lr.match, 2)) =
          SubSeq(lr.data, 1, NthOcc(lr.data, lr.match, 2))

\* C8 as stated (for N >= 1 and non-empty match and replacement): a
\* literal_replace followed by its inverse restores the original bytes
\* whenever the first op succeeds.
C8_InverseRestores ==
    (lr.stage = "inverted" /\ lr.occurrence >= 1
        /\ lr.match # <<>> /\ lr.replacement # <<>>) =>
        (lr.second.ok /\ lr.second.val = lr.data)

\* the region the first op wrote is the N-th occurrence of the replacement
\* in the patched bytes
SameRegion ==
    /\ Cardinality(Occ(lr.first.val, lr.replacement)) >= lr.occurrence
    /\ NthOcc(lr.first.val, lr.replacement, lr.occurrence) =
          NthOcc(lr.data, lr.match, lr.occurrence)

\* C8 amended: a literal_replace (N >= 1) followed by its inverse restores the
\* original bytes whenever the region the first op wrote is the N-th
\* occurrence of the replacement in the patched bytes.
C8_InverseRestoresSameRegion ==
    (lr.stage = "inverted" /\ lr.occurrence >= 1 /\ SameRegion) =>
        (lr.second.ok /\ lr.second.val = lr.data)

\* a second occurrence was replaced by different bytes and restored
C8_Witness ==
    /\ lr.stage = "inverted"
    /\ lr.occurrence = 2
    /\ lr.match # <<>>
    /\ lr.replacement # <<>>
    /\ Len(lr.match) # Len(lr.replacement)
    /\ SameRegion
    /\ lr.first.val # lr.data
    /\ lr.second.ok
    /\ lr.second.val = lr.data

----------------------------------------------------------------------------
(* delete_part on an entry that is already gone (specification Spec)       *)

\* the delete_part ops whose target is already absent when they run: absent
\* from the input, or named by an earlier delete_part of the same recipe
AbsentDeletes ==
    {k \in 1..Len(recipe) :
        /\ recipe[k].operation = "delete_part"
        /\ \/ recipe[k].part \notin DOMAIN archive.data
           \/ \E j \in 1..(k - 1) : /\ recipe[j].operation = "delete_part"
                                    /\ recipe[j].part = recipe[k].part}

\* C11: a delete_part whose target is already absent (absent from the input,
\* or removed by an earlier delete_part of the same recipe) records an error
\* for that op, the remaining ops are still processed, and the run ends in
\* PatchError.
C11_DeleteAbsentRecordsError ==
    Written =>
        \A k \in AbsentDeletes :
            /\ ~NoErrorFor(recipe[k].id)
            /\ i = Len(recipe)
            /\ pc = "done" => outcome.kind = "PatchError"

\* the half of C11 the code implements: the target is absent from the input
C11_DeleteAbsentFromInput ==
    Written =>
        \A k \in 1..Len(recipe) :
            (recipe[k].operation = "delete_part"
                /\ recipe[k].part \notin DOMAIN archive.data) =>
                  /\ \E e \in 1..Len(errors) :
                        errors[e] = <<recipe[k].id, "delete_absent">>
                  /\ i = Len(recipe)
                  /\ pc = "done" => outcome.kind = "PatchError"

\* a second delete_part on an entry of the input ran and the path was returned
C11_RepeatedDelete ==
    /\ pc = "done"
    /\ Len(recipe) = 2
    /\ recipe[1].operation = "delete_part"
    /\ recipe[2].operation = "delete_part"
    /\ recipe[1].part = recipe[2].part
    /\ recipe[1].part \in DOMAIN archive.data
    /\ outcome.kind = "returned"

----------------------------------------------------------------------------
(* report.py: PatchOp, PatchRecipe, merge_recipes                          *)

\* Optional[str]: None, or a str
Nil == <<>>
Some(v) == <<v>>

\* PatchOp instances: two literal_replace on the same match with different
\* replacements, two append_block (match is None) with different anchors,
\* two delete_part that differ in nothing but the generated id
PatchOp(id, part, operation, match, replacement, anchor) ==
    [id |-> id, part |-> part, operation |-> operation, match |-> match,
     replacement |-> replacement, occurrence |-> 1, anchor |-> anchor]

PatchOps ==
    {PatchOp("p1", STYLES, "literal_replace", Some(StrA), Some(StrB), Nil),
     PatchOp("p2", STYLES, "literal_replace", Some(StrA), Some(StrE), Nil),
     PatchOp("p3", STYLES, "append_block", Nil, Nil, Some(StrA)),
     PatchOp("p4", STYLES, "append_block", Nil, Nil, Some(StrB)),
     PatchOp("p5", CALCCHAIN, "delete_part", Nil, Nil, Nil),
     PatchOp("p6", CALCCHAIN, "delete_part", Nil, Nil, Nil)}

RECURSIVE SeqsUpTo(_, _)
SeqsUpTo(S, n) ==
    IF n = 0 THEN {<<>>}
    ELSE LET shorter == SeqsUpTo(S, n - 1)
         IN  shorter \cup {Append(x, e) : x \in {y \in shorter : Len(y) = n - 1},
                                           e \in S}

PatchRecipe(source_file, patches) ==
    [source_file |-> source_file, patches |-> patches]

PatchRecipes == {PatchRecipe("in.xlsx", ps) : ps \in SeqsUpTo(PatchOps, MaxOps)}

\* key = (p.part, p.operation, p.match)
MergeKey(p) == <<p.part, p.operation, p.match>>

\* a merge in which the last op of a key replaces the one kept before
MergeOneLastWins(st, p) ==
    IF MergeKey(p) \notin st.seen
    THEN [seen |-> st.seen \cup {MergeKey(p)}, patches |-> Append(st.patches, p)]
    ELSE [seen |-> st.seen,
          patches |-> [k \in 1..Len(st.patches) |->
                          IF MergeKey(st.patches[k]) = MergeKey(p) THEN p
                          ELSE st.patches[k]]]

\* the inner loop body: keep p unless its key was seen
MergeOne(st, p) ==
    IF MergeKey(p) \notin st.seen
    THEN [seen |-> st.seen \cup {MergeKey(p)}, patches |-> Append(st.patches, p)]
    ELSE st

\* for p in r.patches
RECURSIVE MergePatches(_, _)
MergePatches(st, ps) ==
    IF ps = <<>> THEN st ELSE MergePatches(MergeOne(st, Head(ps)), Tail(ps))

\* for r in recipes
RECURSIVE MergeRecipes(_, _)
MergeRecipes(st, recipes) ==
    IF recipes = <<>> THEN st
    ELSE MergeRecipes(MergePatches(st, Head(recipes).patches), Tail(recipes))

merge_recipes(recipes) ==
    PatchRecipe(IF recipes # <<>> THEN recipes[1].source_file ELSE "",
                MergeRecipes([seen |-> {}, patches |-> <<>>], recipes).patches)

\* merge_recipes() of no recipe, of one, of two
MergeInputs ==
    {<<>>} \cup {<<a>> : a \in PatchRecipes} \cup {<<a, b>> : a, b \in PatchRecipes}

Reverse(seq) == [k \in 1..Len(seq) |-> seq[Len(seq) + 1 - k]]

parkedVars == <<engineVars, lr>>

InitMerge ==
    /\ EngineOff
    /\ lr = LROff
    /\ fn \in [stage : {"input"}, recipes : MergeInputs]

\* merged = merge_recipes(*recipes)
MergeApply ==
    /\ fn.stage = "input"
    /\ fn' = [stage |-> "merged", recipes |-> fn.recipes,
              merged |-> merge_recipes(fn.recipes)]
    /\ UNCHANGED parkedVars

\* swapped = merge_recipes(*reversed(recipes))
MergeSwapped ==
    /\ fn.stage = "merged"
    /\ fn' = [stage |-> "swapped", recipes |-> fn.recipes, merged |-> fn.merged,
              swapped |-> merge_recipes(Reverse(fn.recipes))]
    /\ UNCHANGED parkedVars

\* again = merge_recipes(merged); twice = merge_recipes(merged, merged)
MergeAgain ==
    /\ fn.stage = "swapped"
    /\ fn' = [stage |-> "again", recipes |-> fn.recipes, merged |-> fn.merged,
              swapped |-> fn.swapped,
              again |-> merge_recipes(<<fn.merged>>),
              twice |-> merge_recipes(<<fn.merged, fn.merged>>)]
    /\ UNCHANGED parkedVars

NextMerge == MergeApply \/ MergeSwapped \/ MergeAgain

SpecMerge == InitMerge /\ [][NextMerge]_vars

----------------------------------------------------------------------------
(* Properties of merge_recipes (specification SpecMerge)                   *)

\* the ops of the input recipes in the order the two loops meet them
RECURSIVE Flat(_)
Flat(recipes) ==
    IF recipes = <<>> THEN <<>> ELSE Head(recipes).patches \o Flat(Tail(recipes))

\* the positions of Flat whose (part, operation, match) no earlier one has
FirstOfKey(flat) ==
    {k \in 1..Len(flat) :
        \A j \in 1..(k - 1) :
            <<flat[j].part, flat[j].operation, flat[j].match>>
              # <<flat[k].part, flat[k].operation, flat[k].match>>}

\* the a-th smallest element of a set of positions
NthSmallest(F, a) == CHOOSE k \in F : Cardinality({j \in F : j <= k}) = a

\* C12: merge_recipes deduplicates by the triple (part, operation, match):
\* the merged recipe has no two ops with the same triple, holds for every
\* triple of the inputs the first op met with it, and keeps the ops in the
\* order they were first met.
C12_MergeDedupStable ==
    fn.stage = "merged" =>
        LET flat == Flat(fn.recipes)
            F    == FirstOfKey(flat)
            out  == fn.merged.patches
        IN  /\ Len(out) = Cardinality(F)
            /\ \A a \in 1..Len(out) : out[a] = flat[NthSmallest(F, a)]
            /\ \A a, b \in 1..Len(out) :
                  (out[a].part = out[b].part /\ out[a].operation = out[b].operation
                     /\ out[a].match = out[b].match) => a = b

\* two recipes were merged; the second one's first op repeats a triple (with
\* another replacement) and was dropped, its second op was kept
C12_Witness ==
    /\ fn.stage = "merged"
    /\ Len(fn.recipes) = 2
    /\ Len(fn.recipes[1].patches) = 1
    /\ Len(fn.recipes[2].patches) = 2
    /\ fn.recipes[1].patches[1].id = "p1"
    /\ fn.recipes[2].patches[1].id = "p2"
    /\ fn.recipes[2].patches[2].id = "p5"
    /\ fn.merged.patches = <<fn.recipes[1].patches[1], fn.recipes[2].patches[2]>>

\* C13: merging the same recipes in any order yields the same set of ops, and
\* merging is idempotent: merging a merged recipe again, or with itself,
\* yields the same op list.
C13_MergeOrderIndependent ==
    fn.stage = "again" =>
        /\ Range(fn.swapped.patches) = Range(fn.merged.patches)
        /\ fn.again.patches = fn.merged.patches
        /\ fn.twice.patches = fn.merged.patches

\* the half of C13 the code implements: merging is idempotent
C13_MergeIdempotent ==
    fn.stage = "again" =>
        /\ fn.again.patches = fn.merged.patches
        /\ fn.twice.patches = fn.merged.patches

----------------------------------------------------------------------------
(* report.py: recipe_from_gates                                            *)

MaxFind == 2

\* str(n) of a non-negative int, as code points
RECURSIVE Str(_)
Str(n) == IF n < 10 THEN <<48 + n>> ELSE Str(n \div 10) \o <<48 + (n % 10)>>

\* f'count="{n}"'
CountAttr(n) == <<99, 111, 117, 110, 116, 61, 34>> \o Str(n) \o <<34>>

TABLE1 == "xl/tables/table1.xml"
TABLE2 == "xl/tables/table2.xml"

\* entries of GateReport.styles_dxf, as check_styles_dxf emits them
StyleIssues ==
    {[issue |-> "dxfs_count_mismatch", declared |-> 5, actual |-> 7],
     [issue |-> "dxfs_count_mismatch", declared |-> 10, actual |-> 9],
     [issue |-> "cf_dxfId_out_of_range", dxfId |-> 7, dxf_count |-> 7]}

\* the fields of a GateReport that recipe_from_gates reads
GateInputs ==
    [path : {"in.xlsx"},
     calcchain_invalid :
         SeqsUpTo({[reason |-> "no_formula_at_target"]}, MaxFind),
     styles_dxf : SeqsUpTo(StyleIssues, MaxFind),
     tablecolumn_lf : SeqsUpTo([part : {TABLE1, TABLE2}], MaxFind)]

\* recipe.patches.append(PatchOp(...)): the generated id is new in the recipe
AppendOp(patches, part, operation, match, replacement) ==
    Append(patches, PatchOp(Len(patches) + 1, part, operation, match,
                            replacement, Nil))

\* 1. calcChain invalid entries -> drop calcChain
GatesCalcChain(gate, patches) ==
    IF gate.calcchain_invalid # <<>>
    THEN AppendOp(patches, CALCCHAIN, "delete_part", Nil, Nil)
    ELSE patches

\* a styles loop without the break: one op for every mismatch finding
RECURSIVE GatesStylesNoBreak(_, _)
GatesStylesNoBreak(issues, patches) ==
    IF issues = <<>> THEN patches
    ELSE IF Get(Head(issues), "issue", None) = "dxfs_count_mismatch"
    THEN GatesStylesNoBreak(Tail(issues),
             AppendOp(patches, STYLES, "literal_replace",
                      Some(CountAttr(Head(issues).declared)),
                      Some(CountAttr(Head(issues).actual))))
    ELSE GatesStylesNoBreak(Tail(issues), patches)

\* 2. dxfs count mismatch -> fix count attribute; break after the first
RECURSIVE GatesStyles(_, _)
GatesStyles(issues, patches) ==
    IF issues = <<>> THEN patches
    ELSE IF Get(Head(issues), "issue", None) = "dxfs_count_mismatch"
    THEN AppendOp(patches, STYLES, "literal_replace",
                  Some(CountAttr(Head(issues).declared)),
                  Some(CountAttr(Head(issues).actual)))
    ELSE GatesStyles(Tail(issues), patches)

\* 3. tableColumn linefeed -> hint only
RECURSIVE GatesTable(_, _)
GatesTable(hits, patches) ==
    IF hits = <<>> THEN patches
    ELSE GatesTable(Tail(hits),
             AppendOp(patches, Head(hits).part, "literal_replace",
                      Some(FILL_IN_LINEFEED_VALUE), Some(FILL_IN_CLEAN_VALUE)))

recipe_from_gates(gate) ==
    PatchRecipe(gate.path,
        GatesTable(gate.tablecolumn_lf,
            GatesStyles(gate.styles_dxf, GatesCalcChain(gate, <<>>))))

InitGates ==
    /\ EngineOff
    /\ lr = LROff
    /\ fn \in [stage : {"calcchain"}, gate : GateInputs, patches : {<<>>}]

FromGatesCalcChain ==
    /\ fn.stage = "calcchain"
    /\ fn' = [fn EXCEPT !.stage = "styles",
                        !.patches = GatesCalcChain(fn.gate, fn.patches)]
    /\ UNCHANGED parkedVars

FromGatesStyles ==
    /\ fn.stage = "styles"
    /\ fn' = [fn EXCEPT !.stage = "table",
                        !.patches = GatesStyles(fn.gate.styles_dxf, fn.patches)]
    /\ UNCHANGED parkedVars

FromGatesTable ==
    /\ fn.stage = "table"
    /\ fn' = [fn EXCEPT !.stage = "returned",
                        !.patches = GatesTable(fn.gate.tablecolumn_lf, fn.patches)]
    /\ UNCHANGED parkedVars

NextGates == FromGatesCalcChain \/ FromGatesStyles \/ FromGatesTable

SpecGates == InitGates /\ [][NextGates]_vars

\* the positions of the dxfs_count_mismatch findings of a report
Mismatches(gate) ==
    {k \in 1..Len(gate.styles_dxf) :
        gate.styles_dxf[k].issue = "dxfs_count_mismatch"}

\* part, operation, match and replacement of an op
Effect(op) == <<op.part, op.operation, op.match, op.replacement>>

\* C14: recipe_from_gates yields exactly, in this order: one delete_part on
\* xl/calcChain.xml iff the calcChain gate has a finding; one literal_replace
\* on xl/styles.xml from count="<declared>" to count="<actual>" iff there is
\* a dxfs_count_mismatch finding; one placeholder literal_replace per
\* tableColumn-LF finding on that finding's part; and no other op, so a
\* report with none of these findings yields zero ops.
C14_RecipeFromGates ==
    fn.stage = "returned" =>
        LET g  == fn.gate
            nc == IF g.calcchain_invalid # <<>> THEN 1 ELSE 0
            ns == IF Mismatches(g) # {} THEN 1 ELSE 0
            ps == fn.patches
        IN  /\ Len(ps) = nc + ns + Len(g.tablecolumn_lf)
            /\ nc = 1 => Effect(ps[1]) = <<CALCCHAIN, "delete_part", Nil, Nil>>
            /\ ns = 1 =>
                 \E k \in Mismatches(g) :
                     /\ Effect(ps[nc + 1]) =
                          <<STYLES, "literal_replace",
                            Some(CountAttr(g.styles_dxf[k].declared)),
                            Some(CountAttr(g.styles_dxf[k].actual))>>
                     /\ ps[nc + 1].occurrence = 1
            /\ \A h \in 1..Len(g.tablecolumn_lf) :
                 Effect(ps[nc + ns + h]) =
                     <<g.tablecolumn_lf[h].part, "literal_replace",
                       Some(FILL_IN_LINEFEED_VALUE), Some(FILL_IN_CLEAN_VALUE)>>
            /\ fn.patches = recipe_from_gates(g).patches

\* a report with calcChain findings, two count mismatches and two LF hits
\* gave delete_part, one count fix (10 -> 9) and two placeholders
C14_Witness ==
    /\ fn.stage = "returned"
    /\ Len(fn.gate.calcchain_invalid) = 2
    /\ Cardinality(Mismatches(fn.gate)) = 2
    /\ Len(fn.gate.tablecolumn_lf) = 2
    /\ Len(fn.patches) = 4
    /\ fn.patches[2].match = Some(<<99, 111, 117, 110, 116, 61, 34, 49, 48, 34>>)
    /\ fn.patches[2].replacement = Some(<<99, 111, 117, 110, 116, 61, 34, 57, 34>>)
    /\ fn.patches[4].part = TABLE2

----------------------------------------------------------------------------
(* gate_checks.py: text primitives (re, str) on sequences of code points   *)

\* bytes.decode("utf-8", errors="ignore") for sequences of at most two bytes
RECURSIVE Utf8Decode(_)
Utf8Decode(data) ==
    IF data = <<>> THEN <<>>
    ELSE IF data[1] < 128 THEN <<data[1]>> \o Utf8Decode(Tail(data))
    ELSE IF /\ data[1] \in 194..223
            /\ Len(data) >= 2
            /\ data[2] \in 128..191
    THEN <<(data[1] - 192) * 64 + (data[2] - 128)>> \o Utf8Decode(Tail(Tail(data)))
    ELSE Utf8Decode(Tail(data))

\* _txt(z, name)
_txt(arch, name) == Utf8Decode(arch.data[name])

\* \w on ASCII text
IsWord(c) == c \in (48..57) \cup (65..90) \cup (97..122) \cup {95}

\* \d on ASCII text
IsDigit(c) == c \in 48..57

\* the text holds sub at offset k (0-based)
At(t, sub, k) ==
    /\ k >= 0
    /\ k + Len(sub) <= Len(t)
    /\ SubSeq(t, k + 1, k + Len(sub)) = sub

\* \b at offset k: exactly one of the characters around it is a word character
WordBoundary(t, k) ==
    (k >= 1 /\ k <= Len(t) /\ IsWord(t[k])) # (k < Len(t) /\ IsWord(t[k + 1]))

\* int(s) of a string of decimal digits
RECURSIVE Int_(_)
Int_(s) ==
    IF s = <<>> THEN 0 ELSE 10 * Int_(SubSeq(s, 1, Len(s) - 1)) + (s[Len(s)] - 48)

Max(S) == CHOOSE x \in S : \A y \in S : x >= y

\* the end offset of (\d+)" starting at offset k, or -1 if it does not match
DigitsQuoted(t, k) ==
    LET e == Find(t, <<34>>, k)
    IN  IF e > k /\ \A j \in (k + 1)..e : IsDigit(t[j]) THEN e ELSE -1

\* the offsets where attr="(\d+)" matches after [^>]* from offset from
AttrAfter(t, from, attr) ==
    {q \in from..(Len(t) - Len(attr)) :
        /\ At(t, attr, q)
        /\ WordBoundary(t, q)
        /\ \A j \in (from + 1)..q : t[j] # 62
        /\ DigitsQuoted(t, q + Len(attr)) # -1}

\* the group (\d+) of a match of attr="(\d+)" at offset q
AttrValue(t, q, attr) ==
    Int_(SubSeq(t, q + Len(attr) + 1, DigitsQuoted(t, q + Len(attr))))

----------------------------------------------------------------------------
(* gate_checks.py: check_styles_dxf                                        *)

MaxTags == 4

\* the characters of the tag and attribute names used below
Chars ==
    [fonts |-> <<102, 111, 110, 116, 115>>,
     dxfs  |-> <<100, 120, 102, 115>>,
     dxf   |-> <<100, 120, 102>>]

\* ' count="', the attribute regex text 'count="'
CountEq == <<99, 111, 117, 110, 116, 61, 34>>

\* the text of a tag: <name count="n">, <name/>, </name>
Render(tag) ==
    IF tag.form = "end" THEN <<60, 47>> \o Chars[tag.name] \o <<62>>
    ELSE <<60>> \o Chars[tag.name]
         \o (IF tag.count = Nil THEN <<>>
             ELSE <<32>> \o CountEq \o Str(tag.count[1]) \o <<34>>)
         \o (IF tag.form = "empty" THEN <<47, 62>> ELSE <<62>>)

RECURSIVE RenderAll(_)
RenderAll(tags) ==
    IF tags = <<>> THEN <<>> ELSE Render(Head(tags)) \o RenderAll(Tail(tags))

\* <fonts count="1"/>, <dxfs count="1">, <dxfs count="2">, <dxfs>, <dxf/>,
\* </dxfs>
StyleTags ==
    {[name |-> "fonts", count |-> Some(1), form |-> "empty"],
     [name |-> "dxfs", count |-> Some(1), form |-> "open"],
     [name |-> "dxfs", count |-> Some(2), form |-> "open"],
     [name |-> "dxfs", count |-> Nil, form |-> "open"],
     [name |-> "dxf", count |-> Nil, form |-> "empty"],
     [name |-> "dxfs", count |-> Nil, form |-> "end"]}

\* archives holding xl/styles.xml with the text of a tag list, and one
\* archive without xl/styles.xml
StyleArchive(tags) ==
    [names |-> <<STYLES>>, data |-> [n \in {STYLES} |-> Utf8(RenderAll(tags))]]

NoStylesArchive ==
    [names |-> <<CALCCHAIN>>, data |-> [n \in {CALCCHAIN} |-> <<97>>]]

\* re.findall(r"<dxf\b", txt): the offsets of the matches
DxfOpenings(txt) ==
    {k \in 0..(Len(txt) - 4) :
        At(txt, <<60>> \o Chars.dxf, k) /\ WordBoundary(txt, k + 4)}

\* re.search(r'<dxfs\b[^>]*\bcount="(\d+)"', txt): the offset of the count
\* attribute of the leftmost match ([^>]* is greedy), or -1
DxfsCountAt(txt) ==
    LET opens == {k \in 0..(Len(txt) - 5) :
                     /\ At(txt, <<60>> \o Chars.dxfs, k)
                     /\ WordBoundary(txt, k + 5)
                     /\ AttrAfter(txt, k + 5, CountEq) # {}}
    IN  IF opens = {} THEN -1 ELSE Max(AttrAfter(txt, Min(opens) + 5, CountEq))

\* declared = int(m.group(1)) if m else None
Declared(txt) ==
    IF DxfsCountAt(txt) = -1 THEN Nil
    ELSE Some(AttrValue(txt, DxfsCountAt(txt), CountEq))

\* a count of the <dxf substrings, <dxfs tags included
check_styles_dxf_substrings(arch) ==
    IF STYLES \notin Range(arch.names)
    THEN <<[part |-> STYLES, issue |-> "missing_styles"]>>
    ELSE LET txt      == _txt(arch, STYLES)
             actual   == Cardinality({k \in 0..(Len(txt) - 4) :
                                         At(txt, <<60>> \o Chars.dxf, k)})
             declared == Declared(txt)
         IN  IF declared # Nil /\ declared[1] # actual
             THEN <<[part |-> STYLES, issue |-> "dxfs_count_mismatch",
                     declared |-> declared[1], actual |-> actual]>>
             ELSE <<>>

\* check_styles_dxf(z) on an archive without worksheet parts (the cfRule loop
\* over _sheets(z) has nothing to visit)
check_styles_dxf(arch) ==
    IF STYLES \notin Range(arch.names)
    THEN <<[part |-> STYLES, issue |-> "missing_styles"]>>
    ELSE LET txt      == _txt(arch, STYLES)
             actual   == Cardinality(DxfOpenings(txt))
             declared == Declared(txt)
         IN  IF declared # Nil /\ declared[1] # actual
             THEN <<[part |-> STYLES, issue |-> "dxfs_count_mismatch",
                     declared |-> declared[1], actual |-> actual]>>
             ELSE <<>>

\* Optional[str] as it is written to the recipe dict
Unwrap(o) == IF o = Nil THEN None ELSE o[1]

\* PatchOp.to_dict for the operations the builders above emit
to_dict(op) ==
    IF op.operation = "literal_replace"
    THEN [id |-> op.id, part |-> op.part, operation |-> op.operation,
          match |-> Unwrap(op.match), replacement |-> Unwrap(op.replacement),
          occurrence |-> op.occurrence]
    ELSE [id |-> op.id, part |-> op.part, operation |-> op.operation]

\* PatchRecipe.to_dict()["patches"]
PatchDicts(patches) == [k \in 1..Len(patches) |-> to_dict(patches[k])]

\* a GateReport whose only findings are those of check_styles_dxf
StylesGate(issues) ==
    [path |-> "in.xlsx", calcchain_invalid |-> <<>>, styles_dxf |-> issues,
     tablecolumn_lf |-> <<>>]

InitStyles ==
    /\ EngineOff
    /\ lr = LROff
    /\ fn \in [stage : {"input"}, tags : SeqsUpTo(StyleTags, MaxTags),
               styles : {TRUE}]
             \cup {[stage |-> "input", tags |-> <<>>, styles |-> FALSE]}

\* the archive the gate and the patcher read
StylesSource == IF fn.styles THEN StyleArchive(fn.tags) ELSE NoStylesArchive

\* issues = check_styles_dxf(z)
StylesCheck ==
    /\ fn.stage = "input"
    /\ fn' = [stage |-> "checked", tags |-> fn.tags, styles |-> fn.styles,
              issues |-> check_styles_dxf(StylesSource)]
    /\ UNCHANGED parkedVars

\* recipe = recipe_from_gates(gate)
StylesRecipe ==
    /\ fn.stage = "checked"
    /\ fn' = [stage |-> "recipe", tags |-> fn.tags, styles |-> fn.styles,
              issues |-> fn.issues,
              recipe |-> recipe_from_gates(StylesGate(fn.issues))]
    /\ UNCHANGED parkedVars

\* apply_recipe(source, recipe.to_dict(), output): the loop and the write
StylesApply ==
    /\ fn.stage = "recipe"
    /\ LET run == RunAll(StylesSource, PatchDicts(fn.recipe.patches))
       IN  fn' = [stage |-> "applied", tags |-> fn.tags, styles |-> fn.styles,
                  issues |-> fn.issues, recipe |-> fn.recipe,
                  errors |-> run.errors,
                  patched |-> WriteZip(StylesSource.names, run.parts, run.deleted)]
    /\ UNCHANGED parkedVars

\* again = check_styles_dxf(patched)
StylesRecheck ==
    /\ fn.stage = "applied"
    /\ fn' = [stage |-> "rechecked", tags |-> fn.tags, styles |-> fn.styles,
              issues |-> fn.issues, recipe |-> fn.recipe, errors |-> fn.errors,
              patched |-> fn.patched,
              again |-> check_styles_dxf(fn.patched)]
    /\ UNCHANGED parkedVars

NextStyles == StylesCheck \/ StylesRecipe \/ StylesApply \/ StylesRecheck

SpecStyles == InitStyles /\ [][NextStyles]_vars

----------------------------------------------------------------------------
(* Properties of check_styles_dxf and of the count fix (SpecStyles)        *)

\* the dxf elements of a tag list
DxfElements(tags) ==
    {k \in 1..Len(tags) : tags[k].name = "dxf" /\ tags[k].form # "end"}

\* the <dxfs> tags of a tag list that declare a count
DxfsDeclaring(tags) ==
    {k \in 1..Len(tags) :
        tags[k].name = "dxfs" /\ tags[k].form # "end" /\ tags[k].count # Nil}

\* the findings of kind dxfs_count_mismatch
CountMismatches(issues) ==
    {k \in 1..Len(issues) : issues[k].issue = "dxfs_count_mismatch"}

\* C19 as stated: the gate emits no dxfs_count_mismatch finding iff the N
\* declared in <dxfs count="N"> equals the count of <dxf occurrences in
\* xl/styles.xml.
C19_DxfsCountGate ==
    (fn.stage = "checked" /\ fn.styles /\ DxfsDeclaring(fn.tags) # {}) =>
        LET N == fn.tags[Min(DxfsDeclaring(fn.tags))].count[1]
        IN  CountMismatches(fn.issues) = {}
              <=> N = Cardinality(Occ(RenderAll(fn.tags), <<60, 100, 120, 102>>))

\* C19 amended: the gate emits no dxfs_count_mismatch finding iff no
\* <dxfs count="N"> is declared or the declared N equals the number of dxf
\* elements (the <dxf occurrences not followed by a word character, so the
\* <dxfs tag itself is not counted); a finding reports N and that number.
C19_DxfsCountGateElements ==
    (fn.stage = "checked" /\ fn.styles) =>
        LET D == DxfsDeclaring(fn.tags)
            A == Cardinality(DxfElements(fn.tags))
        IN  /\ CountMismatches(fn.issues) = {}
               <=> (D = {} \/ fn.tags[Min(D)].count[1] = A)
            /\ \A k \in CountMismatches(fn.issues) :
                  /\ fn.issues[k].declared = fn.tags[Min(D)].count[1]
                  /\ fn.issues[k].actual = A

\* <dxfs count="2"> with two dxf elements (three <dxf substrings) passed
C19_Witness ==
    /\ fn.stage = "checked"
    /\ fn.styles
    /\ Len(fn.tags) = 4
    /\ Cardinality(DxfElements(fn.tags)) = 2
    /\ DxfsDeclaring(fn.tags) = {1}
    /\ fn.tags[1].count = Some(2)
    /\ fn.issues = <<>>

\* the offset of the count attribute of the first declaring <dxfs> tag
DxfsCountOffset(tags) ==
    Len(RenderAll(SubSeq(tags, 1, Min(DxfsDeclaring(tags)) - 1))) + 6

\* C15: when xl/styles.xml declares <dxfs count="D"> but holds A # D dxf
\* elements, applying the gate-derived recipe puts count="A" at the position
\* of the <dxfs> count attribute, and the patched package has no
\* dxfs_count_mismatch any more.
C15_CountFixLandsOnDxfs ==
    (fn.stage = "rechecked" /\ CountMismatches(fn.issues) # {}) =>
        /\ At(_txt(fn.patched, STYLES),
              CountAttr(Cardinality(DxfElements(fn.tags))),
              DxfsCountOffset(fn.tags))
        /\ CountMismatches(fn.again) = {}

\* the count fix ran on a text whose first count="D" is the <dxfs> one
C15_FixedWhenDxfsFirst ==
    (fn.stage = "rechecked" /\ CountMismatches(fn.issues) # {}
        /\ fn.tags[1].name = "dxfs" /\ fn.tags[1].count # Nil) =>
        /\ At(_txt(fn.patched, STYLES),
              CountAttr(Cardinality(DxfElements(fn.tags))),
              DxfsCountOffset(fn.tags))
        /\ CountMismatches(fn.again) = {}

----------------------------------------------------------------------------
(* gate_checks.py: GateReport.failing_gates, GateReport.pass_all            *)

\* the ten finding lists of a GateReport
GateFields ==
    {"stopship", "cf_ref", "tablecolumn_lf", "calcchain_invalid",
     "shared_ref_oob", "shared_ref_bbox", "styles_dxf", "xml_wellformed",
     "illegal_control", "rels_missing"}

\* a list of n findings
Findings(n) == [k \in 1..n |-> [part |-> STYLES]]

\* what check_workbook_activetab returns: {} or the active view
ActiveTabs == {<<>>, [activeTab |-> 1, sheetCount |-> 1]}

\* GateReport(path, ...) with counts[f] findings in list f
GateReport(counts, activetab) ==
    [f \in GateFields \cup {"path", "activetab"} |->
        IF f = "path" THEN "in.xlsx"
        ELSE IF f = "activetab" THEN activetab
        ELSE Findings(counts[f])]

\* the dict literal of failing_gates: report key -> finding list
GateLists(rpt) ==
    [stopship_tokens       |-> rpt.stopship,
     cf_ref_hits           |-> rpt.cf_ref,
     tablecolumn_lf        |-> rpt.tablecolumn_lf,
     calcchain_invalid     |-> rpt.calcchain_invalid,
     shared_ref_oob        |-> rpt.shared_ref_oob,
     shared_ref_bbox       |-> rpt.shared_ref_bbox,
     styles_dxf_integrity  |-> rpt.styles_dxf,
     xml_wellformed        |-> rpt.xml_wellformed,
     illegal_control_chars |-> rpt.illegal_control,
     rels_missing_targets  |-> rpt.rels_missing]

\* a comprehension without the "if v" filter
failing_gates_unfiltered(rpt) ==
    LET d == GateLists(rpt) IN [k \in DOMAIN d |-> Len(d[k])]

\* {k: len(v) for k, v in {...}.items() if v}
failing_gates(rpt) ==
    LET d == GateLists(rpt)
    IN  [k \in {x \in DOMAIN d : d[x] # <<>>} |-> Len(d[k])]

\* not self.failing_gates()
pass_all(rpt) == DOMAIN failing_gates(rpt) = {}

InitReport ==
    /\ EngineOff
    /\ lr = LROff
    /\ fn \in [stage : {"report"}, counts : [GateFields -> {0, 1, MaxFind}],
               activetab : ActiveTabs]

\* rpt.failing_gates()
ReportFailingGates ==
    /\ fn.stage = "report"
    /\ fn' = [stage |-> "failing", counts |-> fn.counts, activetab |-> fn.activetab,
              failing |-> failing_gates(GateReport(fn.counts, fn.activetab))]
    /\ UNCHANGED parkedVars

\* rpt.pass_all
ReportPassAll ==
    /\ fn.stage = "failing"
    /\ fn' = [stage |-> "pass", counts |-> fn.counts, activetab |-> fn.activetab,
              failing |-> fn.failing,
              pass |-> pass_all(GateReport(fn.counts, fn.activetab))]
    /\ UNCHANGED parkedVars

NextReport == ReportFailingGates \/ ReportPassAll

SpecReport == InitReport /\ [][NextReport]_vars

\* the field of the report behind a key of failing_gates
FieldOfKey ==
    [stopship_tokens       |-> "stopship",
     cf_ref_hits           |-> "cf_ref",
     tablecolumn_lf        |-> "tablecolumn_lf",
     calcchain_invalid     |-> "calcchain_invalid",
     shared_ref_oob        |-> "shared_ref_oob",
     shared_ref_bbox       |-> "shared_ref_bbox",
     styles_dxf_integrity  |-> "styles_dxf",
     xml_wellformed        |-> "xml_wellformed",
     illegal_control_chars |-> "illegal_control",
     rels_missing_targets  |-> "rels_missing"]

\* C16: pass is true iff all ten finding lists are empty; failing_gates holds
\* exactly the gates with at least one finding, each with its finding count
\* (no zero entries); and the active-view record influences neither.
C16_PassIffNoFindings ==
    fn.stage = "pass" =>
        /\ fn.pass <=> \A f \in GateFields : fn.counts[f] = 0
        /\ DOMAIN fn.failing = {k \in DOMAIN FieldOfKey : fn.counts[FieldOfKey[k]] > 0}
        /\ \A k \in DOMAIN fn.failing :
              fn.failing[k] = fn.counts[FieldOfKey[k]] /\ fn.failing[k] >= 1
        /\ \A a \in ActiveTabs :
              /\ failing_gates(GateReport(fn.counts, a)) = fn.failing
              /\ pass_all(GateReport(fn.counts, a)) = fn.pass

\* a report with an active view, two failing gates and eight empty ones
C16_Witness ==
    /\ fn.stage = "pass"
    /\ fn.activetab # <<>>
    /\ ~fn.pass
    /\ DOMAIN fn.failing = {"styles_dxf_integrity", "rels_missing_targets"}
    /\ fn.failing["styles_dxf_integrity"] = MaxFind
    /\ fn.failing["rels_missing_targets"] = 1

\* a report with an active view and no finding passes
C16_WitnessPass ==
    /\ fn.stage = "pass"
    /\ fn.activetab # <<>>
    /\ fn.pass
    /\ fn.failing = <<>>

----------------------------------------------------------------------------
(* gate_checks.py: worksheet and calcChain text as tag lists.  Every       *)
(* regular expression of the gates below matches inside one tag ([^>]*     *)
(* never crosses a ">"), so a part's text is modelled as the sequence of   *)
(* its tags, each with its name, its form (open <x ..>, empty <x ../>,     *)
(* end </x>) and its attributes in textual order.                          *)

MaxCells == 3
MaxEntries == 2

Tag(name, form, attrs) == [name |-> name, form |-> form, attrs |-> attrs]

\* cell references "A1", "B1", "C1" and sheet indices "1", "2"
RefA1 == <<65, 49>>
RefB1 == <<66, 49>>
RefC1 == <<67, 49>>
CellRefs == {RefA1, RefB1, RefC1}
SheetIds == {<<49>>, <<50>>}

\* the positions of the attribute a in a tag
AttrIndex(tag, a) == {k \in 1..Len(tag.attrs) : tag.attrs[k][1] = a}

\* [A-Z]+\d+
IsCellRef(v) ==
    \E n \in 1..(Len(v) - 1) :
        /\ \A k \in 1..n : v[k] \in 65..90
        /\ \A k \in (n + 1)..Len(v) : IsDigit(v[k])

\* <c\b[^>]*\br="([A-Z]+\d+)" matches in the tag
IsCellOpen(tag) ==
    /\ tag.name = "c"
    /\ tag.form # "end"
    /\ \E k \in AttrIndex(tag, "r") : IsCellRef(tag.attrs[k][2])

\* group 1 of that match ([^>]* is greedy: the last r= that matches)
CellRef(tag) ==
    tag.attrs[Max({k \in AttrIndex(tag, "r") : IsCellRef(tag.attrs[k][2])})][2]

\* a cell of a worksheet: <c r=".."/>, <c r=".."><v>..</v></c> or
\* <c r=".."><f>..</f><v>..</v></c>
Cells == [r : CellRefs, kind : {"empty", "value", "formula"}]

CellTags(cell) ==
    IF cell.kind = "empty" THEN <<Tag("c", "empty", <<<<"r", cell.r>>>>)>>
    ELSE <<Tag("c", "open", <<<<"r", cell.r>>>>)>>
         \o (IF cell.kind = "formula"
             THEN <<Tag("f", "open", <<>>), Tag("f", "end", <<>>)>> ELSE <<>>)
         \o <<Tag("v", "open", <<>>), Tag("v", "end", <<>>), Tag("c", "end", <<>>)>>

RECURSIVE CellsTags(_)
CellsTags(cells) ==
    IF cells = <<>> THEN <<>> ELSE CellTags(Head(cells)) \o CellsTags(Tail(cells))

\* <row r="1"> cells </row>
SheetTags(cells) ==
    <<Tag("row", "open", <<<<"r", <<49>>>>>>)>> \o CellsTags(cells)
        \o <<Tag("row", "end", <<>>)>>

\* sheets of at most MaxCells cells, no reference used twice
Sheets ==
    {cs \in SeqsUpTo(Cells, MaxCells) :
        \A a, b \in 1..Len(cs) : cs[a].r = cs[b].r => a = b}

\* s.split("</c>"): the tag lists between the </c> tags
RECURSIVE SplitEndC(_, _)
SplitEndC(tags, chunk) ==
    IF tags = <<>> THEN <<chunk>>
    ELSE IF Head(tags).name = "c" /\ Head(tags).form = "end"
    THEN <<chunk>> \o SplitEndC(Tail(tags), <<>>)
    ELSE SplitEndC(Tail(tags), Append(chunk, Head(tags)))

----------------------------------------------------------------------------
(* gate_checks.py: check_calcchain_invalid                                 *)

\* <c r=".." i=".."/> entries of xl/calcChain.xml
CalcEntryTags ==
    {Tag("c", "empty", <<<<"r", r>>, <<"i", sid>>>>) : r \in CellRefs, sid \in SheetIds}

\* archives: xl/calcChain.xml absent or a list of entries; worksheets keyed
\* by the {i} of xl/worksheets/sheet{i}.xml, sheet 1 present, sheet 2 absent
CalcArchives ==
    [calc : {Nil} \cup {Some(es) : es \in SeqsUpTo(CalcEntryTags, MaxEntries)},
     cells : Sheets]

SheetParts(arch) == [id \in {<<49>>} |-> SheetTags(arch.cells)]

\* <c\b[^>]*\br="([^"]+)"[^>]*\bi="(\d+)"[^>]*/> matches the tag
IsCalcEntry(tag) ==
    /\ tag.name = "c"
    /\ tag.form = "empty"
    /\ \E k \in AttrIndex(tag, "r"), j \in AttrIndex(tag, "i") :
          /\ k < j
          /\ tag.attrs[k][2] # <<>>
          /\ tag.attrs[j][2] # <<>>
          /\ \A d \in 1..Len(tag.attrs[j][2]) : IsDigit(tag.attrs[j][2][d])

\* the (cell, i) groups of the match
CalcEntry(tag) ==
    LET pairs == {<<k, j>> \in AttrIndex(tag, "r") \X AttrIndex(tag, "i") : k < j}
        kj    == CHOOSE x \in pairs : \A y \in pairs : y[1] <= x[1]
    IN  [cell |-> tag.attrs[kj[1]][2], i |-> tag.attrs[kj[2]][2]]

\* entries = re.findall(...)
CalcEntries(tags) ==
    LET hits == SelectSeq(tags, IsCalcEntry)
    IN  [k \in 1..Len(hits) |-> CalcEntry(hits[k])]

\* cm = re.search(cell regex, chunk); "<f" in chunk[cm.end():]
ChunkFormulaCell(chunk) ==
    LET opens == {k \in 1..Len(chunk) : IsCellOpen(chunk[k])}
    IN  IF opens = {} THEN {}
        ELSE IF \E k \in (Min(opens) + 1)..Len(chunk) :
                    chunk[k].name = "f" /\ chunk[k].form # "end"
        THEN {CellRef(chunk[Min(opens)])} ELSE {}

\* formula_cells of one worksheet
FormulaCells(tags) ==
    LET chunks == SplitEndC(tags, <<>>)
    IN  UNION {ChunkFormulaCell(chunks[k]) : k \in 1..Len(chunks)}

\* the finding of one entry, if any
CalcFinding(arch, e) ==
    IF e.i \notin DOMAIN SheetParts(arch)
    THEN <<[sheet |-> e.i, cell |-> e.cell, reason |-> "missing_sheet_part"]>>
    ELSE IF e.cell \notin FormulaCells(SheetParts(arch)[e.i])
    THEN <<[sheet |-> e.i, cell |-> e.cell, reason |-> "no_formula_at_target"]>>
    ELSE <<>>

RECURSIVE CalcFindings(_, _)
CalcFindings(arch, entries) ==
    IF entries = <<>> THEN <<>>
    ELSE CalcFinding(arch, Head(entries)) \o CalcFindings(arch, Tail(entries))

check_calcchain_invalid(arch) ==
    IF arch.calc = Nil THEN <<>>
    ELSE CalcFindings(arch, CalcEntries(arch.calc[1]))

InitCalc ==
    /\ EngineOff
    /\ lr = LROff
    /\ fn \in [stage : {"input"}, arch : CalcArchives]

\* invalid = check_calcchain_invalid(z)
CalcCheck ==
    /\ fn.stage = "input"
    /\ fn' = [stage |-> "checked", arch |-> fn.arch,
              invalid |-> check_calcchain_invalid(fn.arch)]
    /\ UNCHANGED parkedVars

NextCalc == CalcCheck

SpecCalc == InitCalc /\ [][NextCalc]_vars

\* the cell of worksheet sid has an <f> child (only sheet 1 is in the archive)
HasFormula(cells, cell, sid) ==
    /\ sid = <<49>>
    /\ \E k \in 1..Len(cells) : cells[k].r = cell /\ cells[k].kind = "formula"

\* the finding due for the entry <c r="cell" i="sid"/>, if any
Expected(cells, cell, sid) ==
    IF sid # <<49>>
    THEN <<[sheet |-> sid, cell |-> cell, reason |-> "missing_sheet_part"]>>
    ELSE IF ~HasFormula(cells, cell, sid)
    THEN <<[sheet |-> sid, cell |-> cell, reason |-> "no_formula_at_target"]>>
    ELSE <<>>

RECURSIVE ExpectedAll(_, _)
ExpectedAll(cells, entries) ==
    IF entries = <<>> THEN <<>>
    ELSE Expected(cells, Head(entries).attrs[1][2], Head(entries).attrs[2][2])
         \o ExpectedAll(cells, Tail(entries))

\* C17: the calcChain gate emits no finding iff xl/calcChain.xml is absent or
\* every entry resolves to a cell of sheet i that has an <f> child; otherwise
\* each offending entry yields one finding (missing_sheet_part if the sheet
\* part is absent, no_formula_at_target if the cell carries no formula),
\* however the cells are laid out in the sheet.
C17_CalcChainGate ==
    fn.stage = "checked" =>
        fn.invalid = (IF fn.arch.calc = Nil THEN <<>>
                      ELSE ExpectedAll(fn.arch.cells, fn.arch.calc[1]))

\* the half of C17 the code implements: no self-closing cell in the sheet
C17_CalcChainGateNoEmptyCells ==
    (fn.stage = "checked"
        /\ \A k \in 1..Len(fn.arch.cells) : fn.arch.cells[k].kind # "empty") =>
        fn.invalid = (IF fn.arch.calc = Nil THEN <<>>
                      ELSE ExpectedAll(fn.arch.cells, fn.arch.calc[1]))

----------------------------------------------------------------------------
(* gate_checks.py: _max_row, _parse_ref, _iter_cells, check_shared_ref     *)
(* (the out-of-bounds list)                                                *)

MaxRows == 3

\* t="shared"
Shared == <<115, 104, 97, 114, 101, 100>>

\* ref= values with the end row they name: "A1:A2", "A1:A3", "A3"
RefDecls ==
    {[text |-> <<65, 49, 58, 65, 50>>, end_row |-> 2],
     [text |-> <<65, 49, 58, 65, 51>>, end_row |-> 3],
     [text |-> <<65, 51>>, end_row |-> 3]}

\* the cells of a worksheet: a self-closing cell, or a cell with
\* <f t="shared" si=".."> with or without a ref= declaration
SharedCells ==
    [kind : {"empty"}]
    \cup [kind : {"shared"}, si : {<<48>>, <<49>>}, ref : {Nil} \cup {Some(d) : d \in RefDecls}]

\* the k-th cell of the row is in column k: "A1", "B1", ...
SharedCellTags(cell, k) ==
    IF cell.kind = "empty" THEN <<Tag("c", "empty", <<<<"r", <<64 + k, 49>>>>>>)>>
    ELSE <<Tag("c", "open", <<<<"r", <<64 + k, 49>>>>>>),
           Tag("f", "open",
               <<<<"t", Shared>>, <<"si", cell.si>>>>
               \o (IF cell.ref = Nil THEN <<>> ELSE <<<<"ref", cell.ref[1].text>>>>)),
           Tag("f", "end", <<>>), Tag("c", "end", <<>>)>>

RECURSIVE SharedCellsTags(_, _)
SharedCellsTags(cells, k) ==
    IF k > Len(cells) THEN <<>>
    ELSE SharedCellTags(cells[k], k) \o SharedCellsTags(cells, k + 1)

\* <row r="n"> </row>
RowTags(n, inner) ==
    <<Tag("row", "open", <<<<"r", Str(n)>>>>)>> \o inner \o <<Tag("row", "end", <<>>)>>

\* rows 2..n, empty
RECURSIVE EmptyRows(_, _)
EmptyRows(k, n) == IF k > n THEN <<>> ELSE RowTags(k, <<>>) \o EmptyRows(k + 1, n)

\* a worksheet of n rows whose first row holds the cells
SharedSheetTags(cells, n) == RowTags(1, SharedCellsTags(cells, 1)) \o EmptyRows(2, n)

\* the positions of the attribute a whose value is a string of digits
DigitAttr(tag, a) ==
    {k \in AttrIndex(tag, a) :
        /\ tag.attrs[k][2] # <<>>
        /\ \A d \in 1..Len(tag.attrs[k][2]) : IsDigit(tag.attrs[k][2][d])}

\* _max_row(xml)
_max_row(tags) ==
    LET rows == {k \in 1..Len(tags) :
                    /\ tags[k].name = "row"
                    /\ tags[k].form # "end"
                    /\ DigitAttr(tags[k], "r") # {}}
    IN  IF rows = {} THEN 0
        ELSE Max({Int_(tags[k].attrs[Max(DigitAttr(tags[k], "r"))][2]) : k \in rows})

\* the number of leading capital letters of a string
RECURSIVE Letters(_)
Letters(v) ==
    IF v = <<>> \/ Head(v) \notin 65..90 THEN 0 ELSE 1 + Letters(Tail(v))

\* _parse_ref(ref): ^([A-Z]+)(\d+):([A-Z]+)(\d+)$
_parse_ref(ref) ==
    LET colons == {k \in 1..Len(ref) : ref[k] = 58}
    IN  IF Cardinality(colons) # 1 THEN Nil
        ELSE LET c  == Min(colons)
                 lo == SubSeq(ref, 1, c - 1)
                 hi == SubSeq(ref, c + 1, Len(ref))
             IN  IF IsCellRef(lo) /\ IsCellRef(hi)
                 THEN Some(<<SubSeq(lo, 1, Letters(lo)),
                             Int_(SubSeq(lo, Letters(lo) + 1, Len(lo))),
                             SubSeq(hi, 1, Letters(hi)),
                             Int_(SubSeq(hi, Letters(hi) + 1, Len(hi)))>>)
                 ELSE Nil

\* one chunk of _iter_cells: the last <c ..> of the chunk and the first
\* <f ..> after it
IterChunk(chunk) ==
    LET opens == {k \in 1..Len(chunk) : IsCellOpen(chunk[k])}
        fs    == IF opens = {} THEN {}
                 ELSE {k \in (Max(opens) + 1)..Len(chunk) :
                          chunk[k].name = "f" /\ chunk[k].form # "end"}
    IN  IF fs = {} THEN <<>>
        ELSE <<[cell |-> CellRef(chunk[Max(opens)]), fa |-> chunk[Min(fs)]]>>

RECURSIVE IterChunks(_)
IterChunks(chunks) ==
    IF chunks = <<>> THEN <<>> ELSE IterChunk(Head(chunks)) \o IterChunks(Tail(chunks))

\* _iter_cells(xml)
_iter_cells(tags) == IterChunks(SplitEndC(tags, <<>>))

\* si_decl[si] = ref on an insertion-ordered dict
DictSet(d, key, val) ==
    IF \E k \in 1..Len(d) : d[k][1] = key
    THEN [k \in 1..Len(d) |-> IF d[k][1] = key THEN <<key, val>> ELSE d[k]]
    ELSE Append(d, <<key, val>>)

\* the loop over _iter_cells(s) that fills si_decl
RECURSIVE SiDecl(_, _)
SiDecl(cells, d) ==
    IF cells = <<>> THEN d
    ELSE LET fa == Head(cells).fa
         IN  IF \A k \in AttrIndex(fa, "t") : fa.attrs[k][2] # Shared
             THEN SiDecl(Tail(cells), d)
             ELSE IF DigitAttr(fa, "si") = {} THEN SiDecl(Tail(cells), d)
             ELSE IF \A k \in AttrIndex(fa, "ref") : fa.attrs[k][2] = <<>>
             THEN SiDecl(Tail(cells), d)
             ELSE SiDecl(Tail(cells),
                         DictSet(d, fa.attrs[Min(DigitAttr(fa, "si"))][2],
                                 fa.attrs[Min({k \in AttrIndex(fa, "ref") :
                                                  fa.attrs[k][2] # <<>>})][2]))

\* for si, ref in si_decl.items(): the out-of-bounds findings
RECURSIVE OobFindings(_, _)
OobFindings(d, mrow) ==
    IF d = <<>> THEN <<>>
    ELSE LET pr == _parse_ref(Head(d)[2])
         IN  (IF pr # Nil /\ pr[1][4] > mrow
              THEN <<[si |-> Head(d)[1], ref |-> Head(d)[2], sheet_max_row |-> mrow]>>
              ELSE <<>>) \o OobFindings(Tail(d), mrow)

\* check_shared_ref(z)[0] for an archive with one worksheet
check_shared_ref_oob(tags) ==
    OobFindings(SiDecl(_iter_cells(tags), <<>>), _max_row(tags))

InitShared ==
    /\ EngineOff
    /\ lr = LROff
    /\ fn \in [stage : {"input"}, cells : SeqsUpTo(SharedCells, MaxCells),
               rows : 1..MaxRows]

\* oob, bbox = check_shared_ref(z)
SharedCheck ==
    /\ fn.stage = "input"
    /\ fn' = [stage |-> "checked", cells |-> fn.cells, rows |-> fn.rows,
              oob |-> check_shared_ref_oob(SharedSheetTags(fn.cells, fn.rows))]
    /\ UNCHANGED parkedVars

NextShared == SharedCheck

SpecShared == InitShared /\ [][NextShared]_vars

\* the cells whose ref= declaration ends below the last row of the sheet
Violating(cells, rows) ==
    {k \in 1..Len(cells) :
        /\ cells[k].kind = "shared"
        /\ cells[k].ref # Nil
        /\ cells[k].ref[1].end_row > rows}

\* C18: the shared-formula OOB gate emits no finding iff every ref= declared
\* on a shared-formula base cell has an end row not exceeding the sheet's
\* maximum row; each violating declaration yields a finding.
C18_SharedRefOob ==
    fn.stage = "checked" =>
        /\ fn.oob = <<>> <=> Violating(fn.cells, fn.rows) = {}
        /\ \A k \in Violating(fn.cells, fn.rows) :
              \E j \in 1..Len(fn.oob) :
                  /\ fn.oob[j].si = fn.cells[k].si
                  /\ fn.oob[j].ref = fn.cells[k].ref[1].text

\* sheets where every ref= is a range and no si is declared twice
WellFormedDecls(cells) ==
    /\ \A k \in 1..Len(cells) :
          (cells[k].kind = "shared" /\ cells[k].ref # Nil) =>
              \E c \in 1..Len(cells[k].ref[1].text) : cells[k].ref[1].text[c] = 58
    /\ \A a, b \in 1..Len(cells) :
          (cells[a].kind = "shared" /\ cells[b].kind = "shared"
             /\ cells[a].ref # Nil /\ cells[b].ref # Nil
             /\ cells[a].si = cells[b].si) => a = b

\* the half of C18 the code implements: range refs, one declaration per si
C18_SharedRefOobWellFormed ==
    (fn.stage = "checked" /\ WellFormedDecls(fn.cells)) =>
        /\ fn.oob = <<>> <=> Violating(fn.cells, fn.rows) = {}
        /\ \A k \in Violating(fn.cells, fn.rows) :
              \E j \in 1..Len(fn.oob) :
                  /\ fn.oob[j].si = fn.cells[k].si
                  /\ fn.oob[j].ref = fn.cells[k].ref[1].text
                  /\ fn.oob[j].sheet_max_row = fn.rows

----------------------------------------------------------------------------
(* gate_checks.py: check_rels_missing.  A part name or a Target is a str   *)
(* written as the sequence of its "/" characters and of the runs of other  *)
(* characters between them, e.g. <<"xl", "/", "_rels", "/", "a.rels">>.    *)

MaxRels == 2

\* "/".join(segments)
RECURSIVE Join(_)
Join(segs) ==
    IF segs = <<>> THEN <<>>
    ELSE IF Len(segs) = 1 THEN <<segs[1]>>
    ELSE <<segs[1], "/">> \o Join(Tail(segs))

\* s.rsplit("/", 1)[0]
RSplitHead(str) ==
    LET slashes == {k \in 1..Len(str) : str[k] = "/"}
    IN  IF slashes = {} THEN str ELSE SubSeq(str, 1, Max(slashes) - 1)

\* s.replace("//", "/")
RECURSIVE ReplaceSlashes(_)
ReplaceSlashes(str) ==
    IF Len(str) < 2 THEN str
    ELSE IF str[1] = "/" /\ str[2] = "/"
    THEN <<"/">> \o ReplaceSlashes(Tail(Tail(str)))
    ELSE <<str[1]>> \o ReplaceSlashes(Tail(str))

\* s.split("/"): the pieces between the slashes, "" written <<>>
RECURSIVE SplitSlash(_, _)
SplitSlash(str, piece) ==
    IF str = <<>> THEN <<piece>>
    ELSE IF Head(str) = "/" THEN <<piece>> \o SplitSlash(Tail(str), <<>>)
    ELSE SplitSlash(Tail(str), Append(piece, Head(str)))

\* "/".join(p for p in pieces if p not in ("", "."))
RECURSIVE JoinKept(_)
JoinKept(pieces) ==
    IF pieces = <<>> THEN <<>>
    ELSE LET rest == JoinKept(Tail(pieces))
         IN  IF Head(pieces) = <<>> \/ Head(pieces) = <<".">> THEN rest
             ELSE IF rest = <<>> THEN Head(pieces)
             ELSE Head(pieces) \o <<"/">> \o rest

\* base, owner, resolved of check_rels_missing
ResolveTarget(rels, target) ==
    LET base  == RSplitHead(rels)
        owner == IF \E k \in 1..Len(base) : base[k] = "/" THEN RSplitHead(base) ELSE <<>>
    IN  JoinKept(SplitSlash(ReplaceSlashes(owner \o <<"/">> \o target), <<>>))

\* the .rels parts, with the segments of their owner directory
RelsParts ==
    {[name |-> <<"_rels", ".rels">>, owner |-> <<>>],
     [name |-> <<"xl", "_rels", "workbook.xml.rels">>, owner |-> <<"xl">>],
     [name |-> <<"xl", "worksheets", "_rels", "sheet1.xml.rels">>,
      owner |-> <<"xl", "worksheets">>]}

\* n.endswith(".rels")
IsRels(name) ==
    name # <<>> /\ name[Len(name)] \in {".rels", "workbook.xml.rels", "sheet1.xml.rels"}

\* the other parts an archive may hold
OtherParts ==
    {<<"xl", "workbook.xml">>, <<"xl", "worksheets", "sheet1.xml">>,
     <<"xl", "tables", "table1.xml">>}

\* <Relationship Target=".." [TargetMode="External"]/> entries
Relationships ==
    [target : {<<"xl", "workbook.xml">>, <<"worksheets", "sheet1.xml">>,
               <<".", "worksheets", "sheet1.xml">>, <<"..", "tables", "table1.xml">>},
     external : BOOLEAN]

\* archives with one .rels part: z.namelist() and the text of the .rels part
RelsArchives ==
    [rels : RelsParts, entries : SeqsUpTo(Relationships, MaxRels),
     others : SUBSET OtherParts]

NameList(arch) == {Join(arch.rels.name)} \cup {Join(n) : n \in arch.others}

\* the loop over the <Relationship ..> tags of one .rels part
RECURSIVE RelsFindings(_, _, _)
RelsFindings(all_parts, rels, entries) ==
    IF entries = <<>> THEN <<>>
    ELSE LET target   == Join(Head(entries).target)
             resolved == ResolveTarget(rels, target)
         IN  (IF Head(entries).external THEN <<>>
              ELSE IF resolved \notin all_parts
              THEN <<[rels |-> rels, target |-> target, resolved |-> resolved]>>
              ELSE <<>>) \o RelsFindings(all_parts, rels, Tail(entries))

check_rels_missing(arch) ==
    IF IsRels(arch.rels.name)
    THEN RelsFindings(NameList(arch), Join(arch.rels.name), arch.entries)
    ELSE <<>>

InitRels ==
    /\ EngineOff
    /\ lr = LROff
    /\ fn \in [stage : {"input"}, arch : RelsArchives]

\* missing = check_rels_missing(z)
RelsCheck ==
    /\ fn.stage = "input"
    /\ fn' = [stage |-> "checked", arch |-> fn.arch,
              missing |-> check_rels_missing(fn.arch)]
    /\ UNCHANGED parkedVars

NextRels == RelsCheck

SpecRels == InitRels /\ [][NextRels]_vars

\* a relative path resolved against a directory: "." stays, ".." goes up
RECURSIVE Resolved(_, _)
Resolved(dir, segs) ==
    IF segs = <<>> THEN dir
    ELSE IF Head(segs) = "." THEN Resolved(dir, Tail(segs))
    ELSE IF Head(segs) = ".."
    THEN Resolved(IF dir = <<>> THEN dir ELSE SubSeq(dir, 1, Len(dir) - 1), Tail(segs))
    ELSE Resolved(Append(dir, Head(segs)), Tail(segs))

\* the non-external entries whose resolved target is no part of the archive
Broken(arch) ==
    SelectSeq(arch.entries,
              LAMBDA e : /\ ~e.external
                         /\ Resolved(arch.rels.owner, e.target) \notin arch.others
                         /\ Resolved(arch.rels.owner, e.target) # arch.rels.name)

\* C20: the broken-relationships gate emits a finding for a non-external
\* relationship iff its Target, resolved as a relative path against the owner
\* directory of the .rels part, is not a part name of the archive; a
\* relationship whose resolved target exists never produces a finding.
C20_RelsGate ==
    fn.stage = "checked" =>
        /\ Len(fn.missing) = Len(Broken(fn.arch))
        /\ \A k \in 1..Len(fn.missing) :
              fn.missing[k].target = Join(Broken(fn.arch)[k].target)

\* the half of C20 the code implements: targets without ".." segments
C20_RelsGateNoDotDot ==
    (fn.stage = "checked"
        /\ \A k \in 1..Len(fn.arch.entries) : fn.arch.entries[k].target[1] # "..") =>
        /\ Len(fn.missing) = Len(Broken(fn.arch))
        /\ \A k \in 1..Len(fn.missing) :
              /\ fn.missing[k].target = Join(Broken(fn.arch)[k].target)
              /\ fn.missing[k].resolved
                   = Join(Resolved(fn.arch.rels.owner, Broken(fn.arch)[k].target))

(***************************************************************************)
(* TriageOrchestrator.run_full_pipeline (agents.py).  One invocation is a  *)
(* single thread whose position is fn.pc; every agent call is a begin and  *)
(* an end event in fn.trace.  An exception of gate_checks.run_all or       *)
(* diff.diff_packages (a path that is no ZIP archive) or of the probe      *)
(* leaves the function at once: the invocation is aborted and no summary   *)
(* is returned.  PatchAgent.run is never called by the pipeline; a caller  *)
(* may call it on its own with the recipe of a returned summary.           *)
(***************************************************************************)
Truthy(o) == o # Nil /\ o[1] # ""

PathArgs == {Nil, Some(""), Some("Repaired/Book.xlsx")}

TokenArgs == {Nil, Some(""), Some("token")}

Begin(p) ==
    /\ fn.stage = "pipeline" /\ fn.pc = p /\ ~fn.running
    /\ fn' = [fn EXCEPT !.running = TRUE, !.trace = Append(@, <<p, "begin">>)]
    /\ UNCHANGED parkedVars

Complete(p, next) ==
    /\ fn.stage = "pipeline" /\ fn.pc = p /\ fn.running
    /\ fn' = [fn EXCEPT !.running = FALSE, !.pc = next,
                        !.trace = Append(@, <<p, "end">>)]
    /\ UNCHANGED parkedVars

Propagate(p) ==
    /\ fn.stage = "pipeline" /\ fn.pc = p /\ fn.running
    /\ fn' = [fn EXCEPT !.running = FALSE, !.pc = "aborted"]
    /\ UNCHANGED parkedVars

AfterGateIgnoringRepaired(repaired_path) == "diff"

AfterGate(repaired_path) ==
    IF Truthy(repaired_path) THEN "diff" ELSE "recipe"

AfterRecipe(token) ==
    IF Truthy(token) THEN "probe" ELSE "returned"

InitPipeline ==
    /\ EngineOff /\ lr = LROff
    /\ fn \in [stage : {"pipeline"}, repaired_path : PathArgs,
               token : TokenArgs, pc : {"gate"}, running : {FALSE},
               trace : {<<>>}, patterns : {FALSE}, merged : {FALSE},
               patched : {FALSE}]

GatePhase ==
    \/ Begin("gate")
    \/ Complete("gate", AfterGate(fn.repaired_path))
    \/ Propagate("gate")

DiffPhase ==
    \/ Begin("diff")
    \/ Complete("diff", "patterns")
    \/ Propagate("diff")

PatternPhase ==
    \/ Begin("patterns")
    \/ /\ fn.stage = "pipeline" /\ fn.pc = "patterns" /\ fn.running
       /\ \E found \in BOOLEAN :
            fn' = [fn EXCEPT !.running = FALSE, !.pc = "recipe",
                             !.patterns = found,
                             !.trace = Append(@, <<"patterns", "end">>)]
       /\ UNCHANGED parkedVars

RecipePhase ==
    \/ Begin("recipe")
    \/ /\ fn.stage = "pipeline" /\ fn.pc = "recipe" /\ fn.running
       /\ fn' = [fn EXCEPT !.running = FALSE, !.pc = AfterRecipe(fn.token),
                           !.merged = fn.patterns,
                           !.trace = Append(@, <<"recipe", "end">>)]
       /\ UNCHANGED parkedVars

ProbePhase ==
    \/ Begin("probe")
    \/ Complete("probe", "returned")
    \/ Propagate("probe")

PatchAgentRun ==
    /\ fn.stage = "pipeline" /\ fn.pc = "returned" /\ ~fn.patched
    /\ fn' = [fn EXCEPT !.patched = TRUE]
    /\ UNCHANGED parkedVars

NextPipeline ==
    \/ GatePhase
    \/ DiffPhase
    \/ PatternPhase
    \/ RecipePhase
    \/ ProbePhase
    \/ PatchAgentRun

SpecPipeline == InitPipeline /\ [][NextPipeline]_vars

(***************************************************************************)
(* The phases the rules prescribe for the given arguments, in order.       *)
(***************************************************************************)
Prescribed(repaired_path, token) ==
    <<"gate">>
    \o (IF Truthy(repaired_path) THEN <<"diff", "patterns">> ELSE <<>>)
    \o <<"recipe">>
    \o (IF Truthy(token) THEN <<"probe">> ELSE <<>>)

Begun(trace) == SelectSeq(trace, LAMBDA e : e[2] = "begin")

Phases(trace) == [k \in 1..Len(trace) |-> trace[k][1]]

\* C21: within one invocation every phase that begins ends before the next
\* one begins; the phases begun are, at every moment, a prefix of
\* gate checks, differ + pattern classifier (iff a repaired package is
\* supplied), recipe builder, cloud probe (iff credentials are supplied);
\* a returned invocation has run exactly that list (so gate checks and the
\* recipe builder always ran); the patch engine is not among the pipeline's
\* phases and runs only by the caller's own call after the return.
C21_PipelineOrder ==
    fn.stage = "pipeline" =>
        LET want == Prescribed(fn.repaired_path, fn.token)
            begun == Phases(Begun(fn.trace))
        IN /\ \A k \in 1..Len(fn.trace) :
                /\ fn.trace[k][2] = (IF k % 2 = 1 THEN "begin" ELSE "end")
                /\ k % 2 = 0 => fn.trace[k][1] = fn.trace[k - 1][1]
           /\ Len(begun) <= Len(want)
           /\ begun = SubSeq(want, 1, Len(begun))
           /\ fn.pc = "returned" => begun = want /\ Len(fn.trace) = 2 * Len(want)
           /\ "patch" \notin Range(begun)
           /\ fn.patched => fn.pc = "returned"

C21_Witness ==
    /\ fn.stage = "pipeline" /\ fn.pc = "returned"
    /\ Truthy(fn.repaired_path) /\ Truthy(fn.token)
    /\ Phases(Begun(fn.trace)) = <<"gate", "diff", "patterns", "recipe", "probe">>

C21_WitnessSkipped ==
    /\ fn.stage = "pipeline" /\ fn.pc = "returned"
    /\ fn.repaired_path = Some("") /\ fn.token = Nil
    /\ Phases(Begun(fn.trace)) = <<"gate", "recipe">>
(***************************************************************************)
(* graph_probe.py: the cloud probe.  The hosted service is the             *)
(* environment: every request is answered by a status code and a body, or  *)
(* fails below HTTP (urllib.error.URLError).  urlopen returns for a 2xx    *)
(* status and raises HTTPError for every other final status; _api and      *)
(* _upload catch HTTPError only.  A payload is kept as the keys the code   *)
(* looks up and the length of its json.dumps text.                         *)
(***************************************************************************)
MaxBody == 600

ExcerptLen == 500

StatusCodes == {200, 304, 404}

Bodies == {"empty", "ids", "noids", "garbage", "long"}

Answers ==
    [kind : {"http"}, code : StatusCodes, body : Bodies]
    \cup {[kind |-> "URLError", code |-> 0, body |-> "empty"]}

Is2xx(code) == 200 <= code /\ code < 300

\* json.loads of the body text; "{}" stands in for an empty body on the
\* success path only (raw.decode(...) or "{}")
Loads(body) ==
    CASE body = "ids"   -> Ok([ids |-> TRUE, dumped |-> 60])
      [] body = "noids" -> Ok([ids |-> FALSE, dumped |-> 20])
      [] body = "long"  -> Ok([ids |-> FALSE, dumped |-> MaxBody])
      [] OTHER          -> Raise("JSONDecodeError")

EmptyDict == [ids |-> FALSE, dumped |-> 2]

RawPayload(body) ==
    [ids |-> FALSE, dumped |-> IF body = "empty" THEN 11 ELSE 30]

_api(answer) ==
    IF answer.kind = "URLError" THEN Raise("URLError")
    ELSE IF Is2xx(answer.code)
         THEN IF answer.body = "empty" THEN Ok(<<answer.code, EmptyDict>>)
              ELSE LET p == Loads(answer.body)
                   IN IF p.ok THEN Ok(<<answer.code, p.val>>) ELSE p
         ELSE LET p == Loads(answer.body)
              IN Ok(<<answer.code,
                      IF p.ok THEN p.val ELSE RawPayload(answer.body)>>)

_upload(answer) == _api(answer)

\* json.dumps(payload)[:500]
Excerpt(payload) == [text |-> "dumps", len |-> Min({payload.dumped, ExcerptLen})]

Message(text) == [text |-> text, len |-> Len(text)]

GraphResult(success, status_code, step, error) ==
    [success |-> success, status_code |-> status_code, step |-> step,
     error |-> error]

InitProbe ==
    /\ EngineOff /\ lr = LROff
    /\ fn = [stage |-> "probe", pc |-> "upload", log |-> <<>>,
             session_id |-> FALSE, result |-> Nil, raised |-> Nil]

Logged(step, answer) == Append(fn.log, [step |-> step, answer |-> answer])

ProbeReturn(step, answer, res) ==
    fn' = [fn EXCEPT !.pc = "returned", !.log = Logged(step, answer),
                     !.result = Some(res)]

ProbeRaise(step, answer, r) ==
    fn' = [fn EXCEPT !.pc = "raised", !.log = Logged(step, answer),
                     !.raised = Some(r.err)]

probe_upload_and_test ==
    /\ fn.stage = "probe" /\ fn.pc = "upload"
    /\ \E answer \in Answers :
        LET r == _upload(answer)
        IN IF ~r.ok THEN ProbeRaise("upload", answer, r)
           ELSE LET code == r.val[1]
                    upload_resp == r.val[2]
                IN IF code >= 400
                   THEN ProbeReturn("upload", answer,
                            GraphResult(FALSE, code, "upload", Excerpt(upload_resp)))
                   ELSE IF ~upload_resp.ids
                   THEN ProbeReturn("upload", answer,
                            GraphResult(FALSE, code, "upload",
                                Message("Upload succeeded but driveId/itemId missing in response.")))
                   ELSE fn' = [fn EXCEPT !.pc = "createSession",
                                         !.log = Logged("upload", answer)]
    /\ UNCHANGED parkedVars

CreateSession ==
    /\ fn.stage = "probe" /\ fn.pc = "createSession"
    /\ \E answer \in Answers :
        LET r == _api(answer)
        IN IF ~r.ok THEN ProbeRaise("createSession", answer, r)
           ELSE LET code == r.val[1]
                    ses == r.val[2]
                IN IF code >= 400
                   THEN ProbeReturn("createSession", answer,
                            GraphResult(FALSE, code, "createSession", Excerpt(ses)))
                   ELSE IF ~ses.ids
                   THEN ProbeReturn("createSession", answer,
                            GraphResult(FALSE, code, "createSession",
                                Message("No session id in response.")))
                   ELSE fn' = [fn EXCEPT !.pc = "listWorksheets",
                                         !.session_id = TRUE,
                                         !.log = Logged("createSession", answer)]
    /\ UNCHANGED parkedVars

ListWorksheets ==
    /\ fn.stage = "probe" /\ fn.pc = "listWorksheets"
    /\ \E answer \in Answers :
        LET r == _api(answer)
        IN IF ~r.ok THEN ProbeRaise("listWorksheets", answer, r)
           ELSE LET code == r.val[1]
                    ws == r.val[2]
                IN IF code >= 400
                   THEN ProbeReturn("listWorksheets", answer,
                            GraphResult(FALSE, code, "listWorksheets", Excerpt(ws)))
                   ELSE fn' = [fn EXCEPT !.pc = "closeSession",
                                         !.log = Logged("listWorksheets", answer)]
    /\ UNCHANGED parkedVars

CloseSession ==
    /\ fn.stage = "probe" /\ fn.pc = "closeSession"
    /\ \E answer \in Answers :
        LET r == _api(answer)
        IN IF ~r.ok THEN ProbeRaise("closeSession", answer, r)
           ELSE ProbeReturn("closeSession", answer,
                    GraphResult(TRUE, 200, "complete", Nil))
    /\ UNCHANGED parkedVars

NextProbe ==
    \/ probe_upload_and_test
    \/ CreateSession
    \/ ListWorksheets
    \/ CloseSession

SpecProbe == InitProbe /\ [][NextProbe]_vars

ProbeSteps == <<"upload", "createSession", "listWorksheets", "closeSession">>

Non2xx(entry) == entry.answer.kind = "http" /\ ~Is2xx(entry.answer.code)

\* C22: a returned probe result is a failure naming the step, the status
\* code and an excerpt of at most 500 characters of the body whenever some
\* step was answered by a non-2xx status, and it is success = true with
\* step "complete" only if all four steps were answered 2xx.
C22_Non2xxIsFailure ==
    (fn.stage = "probe" /\ fn.pc = "returned") =>
        LET res == fn.result[1]
        IN /\ \A k \in 1..Len(fn.log) :
                Non2xx(fn.log[k]) =>
                    /\ ~res.success
                    /\ res.step = fn.log[k].step
                    /\ res.status_code = fn.log[k].answer.code
                    /\ res.error # Nil /\ res.error.text = "dumps"
                    /\ res.error.len <= ExcerptLen
           /\ res.success =>
                /\ res.step = "complete"
                /\ Len(fn.log) = Len(ProbeSteps)
                /\ \A k \in 1..Len(fn.log) : Is2xx(fn.log[k].answer.code)

\* C23: no failure of an HTTP step (error status, transport failure,
\* unparseable body) leaves probe_upload_and_test as an exception.
C23_FailuresAreReturned ==
    fn.stage = "probe" => fn.pc # "raised" /\ fn.raised = Nil

\* C26: once createSession has yielded a session id, the probe does not
\* return before a close-session DELETE has been issued.
C26_SessionClosedBeforeReturn ==
    (fn.stage = "probe" /\ fn.pc = "returned" /\ fn.session_id) =>
        \E k \in 1..Len(fn.log) : fn.log[k].step = "closeSession"

(***************************************************************************)
(* diff.py: diff_packages.  A package is the entry list of its ZIP         *)
(* (zipfile.infolist order, names may repeat); part names are strings of   *)
(* character codes, compared as Python compares str.  _sha256 is kept as   *)
(* an ideal digest: equal for equal bytes and for nothing else.  The       *)
(* xml_diff text of a changed part is not modelled.  The two packages of  *)
(* a pair hold at most MaxParts + 1 entries together.                      *)
(***************************************************************************)
MaxParts == 2

DiffNames == {<<1>>, <<1, 1>>, <<2>>}

DiffContents == {<<1>>, <<2>>, <<1, 1>>}

Packages == SeqsUpTo([name : DiffNames, raw : DiffContents], MaxParts)

_sha256(b) == <<"sha256", b>>

\* scan(): one PartInfo per ZIP entry, in archive order
scan(pkg) ==
    [k \in 1..Len(pkg) |->
        [name |-> pkg[k].name, size |-> Len(pkg[k].raw),
         sha256 |-> _sha256(pkg[k].raw)]]

\* {p.name: p for p in parts}: a repeated name keeps its last PartInfo
PartMap(infos) ==
    [n \in {infos[k].name : k \in 1..Len(infos)} |->
        infos[Max({k \in 1..Len(infos) : infos[k].name = n})]]

\* str < str
StrLess(a, b) ==
    \E k \in 1..(Len(a) + 1) :
        /\ k <= Len(b)
        /\ \A j \in 1..(k - 1) : a[j] = b[j]
        /\ k = Len(a) + 1 \/ a[k] < b[k]

RECURSIVE Sorted(_)
Sorted(S) ==
    IF S = {} THEN <<>>
    ELSE LET m == CHOOSE x \in S : \A y \in S \ {x} : StrLess(x, y)
         IN <<m>> \o Sorted(S \ {m})

PartDelta(name, status, candidate_size, repaired_size, candidate_sha256, repaired_sha256, size_delta) ==
    [name |-> name, status |-> status,
     candidate_size |-> candidate_size, repaired_size |-> repaired_size,
     candidate_sha256 |-> candidate_sha256,
     repaired_sha256 |-> repaired_sha256, size_delta |-> size_delta]

DeltaBySize(name, cand_map, rep_map) ==
    LET in_cand == name \in DOMAIN cand_map
        in_rep == name \in DOMAIN rep_map
    IN IF in_cand /\ ~in_rep
       THEN PartDelta(name, "removed", Some(cand_map[name].size), Nil,
                      Some(cand_map[name].sha256), Nil, Nil)
       ELSE IF in_rep /\ ~in_cand
       THEN PartDelta(name, "added", Nil, Some(rep_map[name].size),
                      Nil, Some(rep_map[name].sha256), Nil)
       ELSE LET cp == cand_map[name]
                rp == rep_map[name]
            IN IF cp.size = rp.size
               THEN PartDelta(name, "unchanged", Some(cp.size), Some(rp.size),
                              Some(cp.sha256), Some(rp.sha256), Nil)
               ELSE PartDelta(name, "changed", Some(cp.size), Some(rp.size),
                              Some(cp.sha256), Some(rp.sha256),
                              Some(rp.size - cp.size))

Delta(name, cand_map, rep_map) ==
    LET in_cand == name \in DOMAIN cand_map
        in_rep == name \in DOMAIN rep_map
    IN IF in_cand /\ ~in_rep
       THEN PartDelta(name, "removed", Some(cand_map[name].size), Nil,
                      Some(cand_map[name].sha256), Nil, Nil)
       ELSE IF in_rep /\ ~in_cand
       THEN PartDelta(name, "added", Nil, Some(rep_map[name].size),
                      Nil, Some(rep_map[name].sha256), Nil)
       ELSE LET cp == cand_map[name]
                rp == rep_map[name]
            IN IF cp.sha256 = rp.sha256
               THEN PartDelta(name, "unchanged", Some(cp.size), Some(rp.size),
                              Some(cp.sha256), Some(rp.sha256), Nil)
               ELSE PartDelta(name, "changed", Some(cp.size), Some(rp.size),
                              Some(cp.sha256), Some(rp.sha256),
                              Some(rp.size - cp.size))

diff_packages(candidate, repaired) ==
    LET cand_map == PartMap(scan(candidate))
        rep_map == PartMap(scan(repaired))
        all_names == Sorted(DOMAIN cand_map \cup DOMAIN rep_map)
    IN [k \in 1..Len(all_names) |-> Delta(all_names[k], cand_map, rep_map)]

WithStatus(report, status) == SelectSeq(report, LAMBDA p : p.status = status)

summary(report) ==
    [added |-> Len(WithStatus(report, "added")),
     removed |-> Len(WithStatus(report, "removed")),
     changed |-> Len(WithStatus(report, "changed")),
     unchanged |-> Len(WithStatus(report, "unchanged"))]

InitDiff ==
    /\ EngineOff /\ lr = LROff
    /\ fn \in {f \in [stage : {"diff"}, candidate : Packages, repaired : Packages,
                       report : {Nil}, again : {Nil}, summary : {Nil}] :
                   Len(f.candidate) + Len(f.repaired) <= MaxParts + 1}

DiffRun ==
    /\ fn.stage = "diff" /\ fn.report = Nil
    /\ fn' = [fn EXCEPT !.report = Some(diff_packages(fn.candidate, fn.repaired))]
    /\ UNCHANGED parkedVars

DiffSummary ==
    /\ fn.stage = "diff" /\ fn.report # Nil /\ fn.summary = Nil
    /\ fn' = [fn EXCEPT !.summary = Some(summary(fn.report[1]))]
    /\ UNCHANGED parkedVars

DiffRunAgain ==
    /\ fn.stage = "diff" /\ fn.report # Nil /\ fn.again = Nil
    /\ fn' = [fn EXCEPT !.again = Some(diff_packages(fn.candidate, fn.repaired))]
    /\ UNCHANGED parkedVars

NextDiff ==
    \/ DiffRun
    \/ DiffSummary
    \/ DiffRunAgain

SpecDiff == InitDiff /\ [][NextDiff]_vars

NamesOf(pkg) == {pkg[k].name : k \in 1..Len(pkg)}

\* the bytes zipfile serves for a name: those of its last entry
BytesOf(pkg, n) == pkg[Max({k \in 1..Len(pkg) : pkg[k].name = n})].raw

NameCalcChain == <<"xl/", "calcChain", ".xml">>
NameStyles == <<"xl/", "styles", ".xml">>
NameSst == <<"xl/", "sharedStrings", ".xml">>
NameSheet1 == <<"xl/", "worksheets/", "sheet", "1", ".xml">>
NameSheet2 == <<"xl/", "worksheets/", "sheet", "2", ".xml">>
NameTable1 == <<"xl/", "tables/", "table", "1", ".xml">>
NameWbRels == <<"xl/", "_rels/", "workbook", ".xml", ".rels">>

StartsWith(s, prefix) ==
    Len(prefix) <= Len(s) /\ SubSeq(s, 1, Len(prefix)) = prefix

EndsWith(s, suffix) ==
    Len(suffix) <= Len(s)
    /\ SubSeq(s, Len(s) - Len(suffix) + 1, Len(s)) = suffix

Contains(ln, piece) == \E k \in 1..Len(ln) : ln[k] = piece

\* the two header lines and the hunk header of difflib.unified_diff
DiffHead == << <<"-", "-- ">>, <<"+", "++ ">>, <<"@", "@ -1 +1 @@">> >>

DiffOf(lines) == Some(DiffHead \o lines)

StylesDiffs ==
    { Some(<<>>),
      DiffOf(<< <<"+", "<dxf", "/>">> >>),
      DiffOf(<< <<"-", "<dxfs ", "count=\"", "1\">">>,
                <<"+", "<dxfs ", "count=\"", "2\">">>, <<"+", "<dxf", "/>">> >>),
      DiffOf(<< <<"+", "<font ", "count=\"", "2\">">> >>),
      DiffOf(<< <<"-", "<dxf", "/>">> >>) }

SheetDiffs ==
    { Some(<<>>),
      DiffOf(<< <<"-", "<cfRule ", "dxfId=", "\"7\"/>">>,
                <<"+", "<cfRule ", "dxfId=", "\"0\"/>">> >>),
      DiffOf(<< <<"-", "<cfRule ", "dxfId=", "\"7\"/>">> >>),
      DiffOf(<< <<"+", "<f t=\"shared\" ", "ref=", "\"A1:A2\"/>">> >>),
      DiffOf(<< <<" ", "<f t=\"shared\" ", "ref=", "\"A1:A2\"/>">>,
                <<"+", "<v>1</v>">> >>) }

Entry(name, status, xml_diff) ==
    [name |-> name, status |-> status, xml_diff |-> xml_diff]

Absent == <<>>

\* what the differ can report for each part: nothing (the part is in
\* neither package) or one delta
CalcChainDeltas ==
    {Absent} \cup {<<Entry(NameCalcChain, s, Nil)>> : s \in {"removed", "unchanged"}}
        \cup {<<Entry(NameCalcChain, "changed", Some(<<>>))>>}

StylesDeltas ==
    {<<Entry(NameStyles, "unchanged", Nil)>>}
        \cup {<<Entry(NameStyles, "changed", d)>> : d \in StylesDiffs}

Sheet1Deltas ==
    {<<Entry(NameSheet1, "unchanged", Nil)>>}
        \cup {<<Entry(NameSheet1, "changed", d)>> : d \in SheetDiffs}

Sheet2Deltas ==
    {Absent} \cup {<<Entry(NameSheet2, "changed", d)>> : d \in SheetDiffs \ {Some(<<>>)}}

SstDeltas ==
    {<<Entry(NameSst, s, Nil)>> : s \in {"unchanged", "removed"}}
        \cup {<<Entry(NameSst, "changed", DiffOf(<< <<"+", "<si/>">> >>))>>}

TableDeltas ==
    {Absent} \cup {<<Entry(NameTable1, "added", Nil)>>,
                   <<Entry(NameTable1, "changed", Some(<<>>))>>}

RelsDeltas ==
    {<<Entry(NameWbRels, s, Nil)>> : s \in {"unchanged", "changed"}}

\* deltas in name order: _rels/ < calcChain < sharedStrings < styles <
\* tables/ < worksheets/
DiffReports ==
    {r \o c \o ss \o st \o t \o s1 \o s2 :
        r \in RelsDeltas, c \in CalcChainDeltas, ss \in SstDeltas,
        st \in StylesDeltas, t \in TableDeltas, s1 \in Sheet1Deltas,
        s2 \in Sheet2Deltas}

Removed(diff) == SelectSeq(diff, LAMBDA p : p.status = "removed")

Changed(diff) == SelectSeq(diff, LAMBDA p : p.status = "changed")

Pattern(name, affected_parts, confidence) ==
    [name |-> name, affected_parts |-> affected_parts,
     confidence |-> confidence]

\* sum(1 for ln in xml_diff.splitlines() if ln.startswith(sign) and piece in ln)
CountLines(xml_diff, sign, piece) ==
    Len(SelectSeq(xml_diff[1], LAMBDA ln : ln[1] = sign /\ Contains(ln, piece)))

\* "not p.xml_diff": None or the empty string
NoDiff(p) == p.xml_diff = Nil \/ p.xml_diff = Some(<<>>)

\* a for loop that returns at the first delta for which hit(p) holds
FirstHit(deltas, hit(_)) ==
    LET ks == {k \in 1..Len(deltas) : hit(deltas[k])}
    IN IF ks = {} THEN Nil ELSE Some(deltas[Min(ks)])

detect_calcchain_drop(diff) ==
    LET h == FirstHit(Removed(diff), LAMBDA p : p.name = NameCalcChain)
    IN IF h = Nil THEN Nil
       ELSE Some(Pattern("CALCCHAIN_DROP", <<NameCalcChain>>, "HIGH"))

detect_dxfs_insertion(diff) ==
    LET h == FirstHit(Changed(diff),
                 LAMBDA p : /\ p.name = NameStyles
                            /\ ~NoDiff(p)
                            /\ CountLines(p.xml_diff, "+", "<dxf") > 0)
    IN IF h = Nil THEN Nil
       ELSE Some(Pattern("DXFS_INSERTION", <<NameStyles>>,
                 IF CountLines(h[1].xml_diff, "+", "count=\"") > 0
                 THEN "HIGH" ELSE "MEDIUM"))

detect_cf_dxfid_clone(diff) ==
    LET h == FirstHit(Changed(diff),
                 LAMBDA p : /\ StartsWith(p.name, <<"xl/", "worksheets/", "sheet">>)
                            /\ ~NoDiff(p)
                            /\ CountLines(p.xml_diff, "-", "dxfId=") > 0
                            /\ CountLines(p.xml_diff, "+", "dxfId=") > 0)
    IN IF h = Nil THEN Nil
       ELSE Some(Pattern("CF_DXFID_CLONE", <<h[1].name, NameStyles>>, "HIGH"))

detect_sharedstrings_rebuild(diff) ==
    LET h == FirstHit(Changed(diff), LAMBDA p : p.name = NameSst)
    IN IF h = Nil THEN Nil
       ELSE Some(Pattern("SHAREDSTRINGS_REBUILD", <<NameSst>>, "MEDIUM"))

detect_table_style_norm(diff) ==
    LET hits == SelectSeq(Changed(diff),
                    LAMBDA p : /\ StartsWith(p.name, <<"xl/", "tables/", "table">>)
                               /\ EndsWith(p.name, <<".xml">>))
    IN IF hits = <<>> THEN Nil
       ELSE Some(Pattern("TABLE_STYLE_NORM",
                         [k \in 1..Len(hits) |-> hits[k].name], "MEDIUM"))

detect_shared_ref_trim(diff) ==
    LET h == FirstHit(Changed(diff),
                 LAMBDA p : /\ StartsWith(p.name, <<"xl/", "worksheets/", "sheet">>)
                            /\ ~NoDiff(p)
                            /\ \E k \in 1..Len(p.xml_diff[1]) :
                                 LET ln == p.xml_diff[1][k]
                                 IN Contains(ln, "ref=") /\ ln[1] \in {"-", "+"})
    IN IF h = Nil THEN Nil
       ELSE Some(Pattern("SHARED_REF_TRIM", <<h[1].name>>, "HIGH"))

detect_rels_cleanup(diff) ==
    LET hits == SelectSeq(Changed(diff), LAMBDA p : EndsWith(p.name, <<".rels">>))
    IN IF hits = <<>> THEN Nil
       ELSE Some(Pattern("RELS_CLEANUP",
                         [k \in 1..Len(hits) |-> hits[k].name], "MEDIUM"))

detectors ==
    <<"detect_calcchain_drop", "detect_dxfs_insertion", "detect_cf_dxfid_clone",
      "detect_sharedstrings_rebuild", "detect_table_style_norm",
      "detect_shared_ref_trim", "detect_rels_cleanup">>

\* fn(diff) for the detector named d; failing is the set of detectors in
\* which an exception is raised
Detect(d, diff, failing) ==
    IF d \in failing THEN Raise("Exception")
    ELSE Ok(CASE d = "detect_calcchain_drop" -> detect_calcchain_drop(diff)
              [] d = "detect_dxfs_insertion" -> detect_dxfs_insertion(diff)
              [] d = "detect_cf_dxfid_clone" -> detect_cf_dxfid_clone(diff)
              [] d = "detect_sharedstrings_rebuild" -> detect_sharedstrings_rebuild(diff)
              [] d = "detect_table_style_norm" -> detect_table_style_norm(diff)
              [] d = "detect_shared_ref_trim" -> detect_shared_ref_trim(diff)
              [] d = "detect_rels_cleanup" -> detect_rels_cleanup(diff))

RECURSIVE DetectFromStopping(_, _, _, _)
DetectFromStopping(k, diff, failing, results) ==
    IF k > Len(detectors) THEN results
    ELSE LET r == Detect(detectors[k], diff, failing)
         IN IF ~r.ok THEN results
            ELSE DetectFromStopping(k + 1, diff, failing,
                     IF r.val # Nil THEN Append(results, r.val[1]) ELSE results)

RECURSIVE DetectFrom(_, _, _, _)
DetectFrom(k, diff, failing, results) ==
    IF k > Len(detectors) THEN results
    ELSE LET r == Detect(detectors[k], diff, failing)
         IN DetectFrom(k + 1, diff, failing,
                IF r.ok /\ r.val # Nil THEN Append(results, r.val[1])
                ELSE results)

detect_all(diff, failing) == DetectFrom(1, diff, failing, <<>>)

InitPatterns ==
    /\ EngineOff /\ lr = LROff
    /\ fn \in [stage : {"patterns"}, diff : DiffReports,
               failing : {{}} \cup {{detectors[k]} : k \in DOMAIN detectors},
               results : {Nil}]

DetectAll ==
    /\ fn.stage = "patterns" /\ fn.results = Nil
    /\ fn' = [fn EXCEPT !.results = Some(detect_all(fn.diff, fn.failing))]
    /\ UNCHANGED parkedVars

NextPatterns == DetectAll

SpecPatterns == InitPatterns /\ [][NextPatterns]_vars

Catalogue ==
    <<"CALCCHAIN_DROP", "DXFS_INSERTION", "CF_DXFID_CLONE",
      "SHAREDSTRINGS_REBUILD", "TABLE_STYLE_NORM", "SHARED_REF_TRIM",
      "RELS_CLEANUP">>

IsSheet(name) == name \in {NameSheet1, NameSheet2}

HasLine(p, signs, piece) ==
    /\ p.xml_diff # Nil
    /\ \E k \in 1..Len(p.xml_diff[1]) :
         p.xml_diff[1][k][1] \in signs /\ Contains(p.xml_diff[1][k], piece)

\* the catalogue's trigger evidence
Trigger(pattern, diff) ==
    LET deltas == Range(diff)
        changed == {p \in deltas : p.status = "changed"}
    IN CASE pattern = "CALCCHAIN_DROP" ->
              \E p \in deltas : p.status = "removed" /\ p.name = NameCalcChain
         [] pattern = "DXFS_INSERTION" ->
              \E p \in changed : p.name = NameStyles /\ HasLine(p, {"+"}, "<dxf")
         [] pattern = "CF_DXFID_CLONE" ->
              \E p \in changed : /\ IsSheet(p.name)
                                 /\ HasLine(p, {"-"}, "dxfId=")
                                 /\ HasLine(p, {"+"}, "dxfId=")
         [] pattern = "SHAREDSTRINGS_REBUILD" ->
              \E p \in changed : p.name = NameSst
         [] pattern = "TABLE_STYLE_NORM" ->
              \E p \in changed : p.name = NameTable1
         [] pattern = "SHARED_REF_TRIM" ->
              \E p \in changed : IsSheet(p.name) /\ HasLine(p, {"-", "+"}, "ref=")
         [] pattern = "RELS_CLEANUP" ->
              \E p \in changed : p.name = NameWbRels

\* C25: the names detect_all returns are the catalogue, in catalogue order,
\* cut down to the patterns whose trigger evidence is in the report and
\* whose detector did not fail (so each pattern at most once, and a failing
\* detector neither adds a pattern nor stops the detectors after it);
\* DXFS_INSERTION is HIGH iff a count=" line is added as well.
C25_DetectAll ==
    (fn.stage = "patterns" /\ fn.results # Nil) =>
        LET res == fn.results[1]
            want == SelectSeq([k \in DOMAIN Catalogue |-> k],
                        LAMBDA k : /\ Trigger(Catalogue[k], fn.diff)
                                   /\ detectors[k] \notin fn.failing)
        IN /\ [k \in 1..Len(res) |-> res[k].name]
                = [k \in 1..Len(want) |-> Catalogue[want[k]]]
           /\ \A k \in 1..Len(res) :
                res[k].name = "DXFS_INSERTION" =>
                    (res[k].confidence = "HIGH"
                        <=> \E p \in Range(fn.diff) :
                              p.name = NameStyles /\ HasLine(p, {"+"}, "count=\""))

C25_Witness ==
    /\ fn.stage = "patterns" /\ fn.results # Nil
    /\ fn.failing = {"detect_dxfs_insertion"}
    /\ Trigger("DXFS_INSERTION", fn.diff)
    /\ [k \in 1..Len(fn.results[1]) |-> fn.results[1][k].name]
         = <<"CALCCHAIN_DROP", "CF_DXFID_CLONE", "SHAREDSTRINGS_REBUILD",
             "TABLE_STYLE_NORM", "SHARED_REF_TRIM", "RELS_CLEANUP">>

(***************************************************************************)
(* Gate checks, recipe_from_gates and apply_recipe in sequence, and the    *)
(* gates again on the patched package.  The package holds xl/workbook.xml, *)
(* xl/_rels/workbook.xml.rels, xl/worksheets/sheet1.xml with one cell and, *)
(* optionally, xl/calcChain.xml with one entry.  Each part is kept as what *)
(* its gate reads from it (relationship entries, cells, calcChain          *)
(* entries); the patch engine copies these bodies and never reads them for *)
(* a delete_part.                                                          *)
(***************************************************************************)
SegWorkbook == <<"xl", "workbook.xml">>
SegWbRels == <<"xl", "_rels", "workbook.xml.rels">>
SegSheet1 == <<"xl", "worksheets", "sheet1.xml">>
SegCalcChain == <<"xl", "calcChain.xml">>

WORKBOOK == "xl/workbook.xml"
WBRELS == "xl/_rels/workbook.xml.rels"
SHEET1 == "xl/worksheets/sheet1.xml"

\* the ZIP entry name of a part
PartText(segs) ==
    CASE segs = SegWorkbook -> WORKBOOK
      [] segs = SegWbRels -> WBRELS
      [] segs = SegSheet1 -> SHEET1
      [] segs = SegCalcChain -> CALCCHAIN

WbRelationships ==
    [target : {<<"calcChain.xml">>, <<"worksheets", "sheet1.xml">>,
               <<"sharedStrings.xml">>},
     external : {FALSE}]

TriagePackages ==
    [calc : {Nil} \cup {Some(<<e>>) : e \in CalcEntryTags},
     cells : {cs \in Sheets : Len(cs) = 1},
     entries : SeqsUpTo(WbRelationships, MaxRels)]

\* the package as the ZIP the patch engine reads
AsZip(pkg) ==
    LET names == <<WORKBOOK, WBRELS, SHEET1>>
                    \o (IF pkg.calc = Nil THEN <<>> ELSE <<CALCCHAIN>>)
    IN [names |-> names,
        data |-> [n \in Range(names) |->
                    CASE n = WORKBOOK -> <<>>
                      [] n = WBRELS -> pkg.entries
                      [] n = SHEET1 -> pkg.cells
                      [] n = CALCCHAIN -> pkg.calc[1]]]

\* what check_calcchain_invalid and check_rels_missing read from a ZIP
CalcView(zip) ==
    [calc |-> IF CALCCHAIN \in Range(zip.names)
              THEN Some(zip.data[CALCCHAIN]) ELSE Nil,
     cells |-> zip.data[SHEET1]]

RelsView(zip) ==
    [rels |-> [name |-> SegWbRels, owner |-> <<"xl">>],
     entries |-> zip.data[WBRELS],
     others |-> {s \in {SegWorkbook, SegSheet1, SegCalcChain} :
                    PartText(s) \in Range(zip.names)}]

\* run_all, cut down to the two gates
run_all(zip) ==
    [path |-> "in.xlsx",
     calcchain_invalid |-> check_calcchain_invalid(CalcView(zip)),
     rels_missing |-> check_rels_missing(RelsView(zip)),
     styles_dxf |-> <<>>, tablecolumn_lf |-> <<>>]

InitTriage ==
    /\ EngineOff /\ lr = LROff
    /\ fn \in [stage : {"candidate"}, pkg : TriagePackages]

TriageGates ==
    /\ fn.stage = "candidate"
    /\ fn' = [stage |-> "gated", pkg |-> fn.pkg, gate |-> run_all(AsZip(fn.pkg))]
    /\ UNCHANGED parkedVars

TriageRecipe ==
    /\ fn.stage = "gated"
    /\ fn' = [stage |-> "recipe", pkg |-> fn.pkg, gate |-> fn.gate,
              recipe |-> recipe_from_gates(fn.gate)]
    /\ UNCHANGED parkedVars

TriageApply ==
    /\ fn.stage = "recipe"
    /\ LET src == AsZip(fn.pkg)
           run == RunAll(src, PatchDicts(fn.recipe.patches))
       IN fn' = [stage |-> "applied", pkg |-> fn.pkg, gate |-> fn.gate,
                 recipe |-> fn.recipe, errors |-> run.errors,
                 patched |-> WriteZip(src.names, run.parts, run.deleted)]
    /\ UNCHANGED parkedVars

TriageRecheck ==
    /\ fn.stage = "applied"
    /\ fn' = [stage |-> "rechecked", pkg |-> fn.pkg, gate |-> fn.gate,
              recipe |-> fn.recipe, errors |-> fn.errors,
              patched |-> fn.patched, again |-> run_all(fn.patched)]
    /\ UNCHANGED parkedVars

NextTriage ==
    \/ TriageGates
    \/ TriageRecipe
    \/ TriageApply
    \/ TriageRecheck

SpecTriage == InitTriage /\ [][NextTriage]_vars

\* C27: a gate without findings on the candidate has no findings on the
\* package patched with the gate-derived recipe; the broken-relationships
\* gate reports nothing on the patched package that it did not report on
\* the candidate.
C27_NoGateRegression ==
    (fn.stage = "rechecked" /\ fn.recipe.patches # <<>>) =>
        /\ fn.gate.calcchain_invalid = <<>> => fn.again.calcchain_invalid = <<>>
        /\ fn.gate.rels_missing = <<>> => fn.again.rels_missing = <<>>
        /\ Range(fn.again.rels_missing) \subseteq Range(fn.gate.rels_missing)

\* what does hold: the gate the recipe was derived from passes afterwards
C27_CalcChainGateFixed ==
    fn.stage = "rechecked" => fn.again.calcchain_invalid = <<>>

\* C29: a literal_replace with occurrence < 1 on a part of the archive (the
\* only op of its recipe) is recorded as a hard error and leaves the part's
\* bytes in the output as they were in the candidate.
C29_OccurrenceBelowOneNeverMutates ==
    Written =>
        \A k \in 1..Len(recipe) :
            (/\ Len(recipe) = 1
             /\ recipe[k].operation = "literal_replace"
             /\ ~HasSentinel(recipe[k])
             /\ recipe[k].occurrence < 1
             /\ recipe[k].part \in DOMAIN archive.data) =>
                /\ ~NoErrorFor(recipe[k].id)
                /\ output.data[recipe[k].part] = archive.data[recipe[k].part]

\* two ops agree on part, operation and the operation-specific fields
SameEffect(p, q) ==
    /\ p.part = q.part /\ p.operation = q.operation
    /\ p.match = q.match /\ p.replacement = q.replacement
    /\ p.occurrence = q.occurrence /\ p.anchor = q.anchor

\* C30: every op of the input recipes has, in the merged recipe, an op
\* that agrees with it on part, operation and all operation-specific
\* fields: merge_recipes drops an op only for such a duplicate.
C30_MergeKeepsDifferingOps ==
    fn.stage = "merged" =>
        \A k \in 1..Len(Flat(fn.recipes)) :
            \E a \in 1..Len(fn.merged.patches) :
                SameEffect(fn.merged.patches[a], Flat(fn.recipes)[k])

(***************************************************************************)
(* apply_recipe on recipes that do not follow the schema: patch dicts that *)
(* lack a key their operation subscripts (patch["match"], patch["anchor"], *)
(* patch["block"], patch["content"]) or whose "occurrence" is no int.  The *)
(* value of "occurrence" carries its Python type.  The try block around    *)
(* _apply_one catches PatchError only; KeyError, ValueError and TypeError  *)
(* leave apply_recipe before the output is written.                        *)
(***************************************************************************)
\* a value tagged with its Python type; v is a sequence for every type
PyInt(n) == [t |-> "int", v |-> <<n>>]
PyStr(s) == [t |-> "str", v |-> s]
PyNone == [t |-> "NoneType", v |-> <<>>]

\* int(x)
int(x) ==
    CASE x.t = "int" -> Ok(x.v[1])
      [] x.t = "str" -> IF x.v # <<>> /\ \A k \in 1..Len(x.v) : IsDigit(x.v[k])
                        THEN Ok(Int_(x.v)) ELSE Raise("ValueError")
      [] OTHER -> Raise("TypeError")

RawPatches ==
    [part : PartNames, operation : {"literal_replace"}, match : {StrB},
     replacement : {StrE},
     occurrence : {PyInt(1), PyStr(<<50>>), PyStr(<<120>>), PyNone}]
    \cup [part : PartNames, operation : {"literal_replace"}, replacement : {StrE}]
    \cup [part : PartNames, operation : {"append_block"}, block : {StrB}]
    \cup [part : PartNames, operation : {"append_block"}, anchor : {StrB}]
    \cup [part : PartNames, operation : {"set_part"}]
    \cup [part : PartNames, operation : {"set_part"}, content : {StrBE}]
    \cup [part : PartNames, operation : {"delete_part"}]

RawRecipes ==
    UNION {{[k \in 1..n |-> WithId(f[k], k)] : f \in [1..n -> RawPatches]} :
              n \in 0..MaxOps}

\* the exception _apply_one raises before it calls the byte-level function:
\* the first failing argument expression, in evaluation order
ArgumentError(patch) ==
    LET op == Get(patch, "operation", None)
    IN CASE op = "literal_replace" ->
              IF "match" \notin DOMAIN patch THEN Some("KeyError")
              ELSE LET n == int(Get(patch, "occurrence", PyInt(1)))
                   IN IF n.ok THEN Nil ELSE Some(n.err)
         [] op = "append_block" ->
              IF "anchor" \notin DOMAIN patch \/ "block" \notin DOMAIN patch
              THEN Some("KeyError") ELSE Nil
         [] op = "set_part" ->
              IF "content" \notin DOMAIN patch THEN Some("KeyError") ELSE Nil
         [] OTHER -> Nil

\* the loop body reaches the _apply_one call
CallsApplyOne(s, patch) ==
    /\ ~IsStub(patch)
    /\ Get(patch, "operation", None) # "delete_part"
    /\ Get(patch, "part", None) \in DOMAIN s.parts

\* the patch with int(patch.get("occurrence", 1)) evaluated
Evaluated(patch) ==
    [k \in DOMAIN patch |->
        IF k = "occurrence" /\ int(patch[k]).ok THEN int(patch[k]).val
        ELSE patch[k]]

RawLoopBody(s, patch) ==
    IF CallsApplyOne(s, patch) /\ ArgumentError(patch) # Nil
    THEN Raise(ArgumentError(patch)[1])
    ELSE Ok(LoopBody(s, Evaluated(patch)))

InitRaw ==
    /\ EngineOff /\ lr = LROff
    /\ \E a \in Archives, r \in RawRecipes :
         fn = [stage |-> "raw_loop", src |-> a, recipe |-> r, i |-> 0,
               st |-> [parts |-> a.data, deleted |-> {}, errors |-> <<>>,
                       skipped |-> <<>>],
               output |-> NoFile, outcome |-> [kind |-> "running"]]

RawIterate ==
    /\ fn.stage = "raw_loop" /\ fn.i < Len(fn.recipe)
    /\ LET r == RawLoopBody(fn.st, fn.recipe[fn.i + 1])
       IN IF r.ok
          THEN fn' = [fn EXCEPT !.st = r.val, !.i = @ + 1]
          ELSE fn' = [fn EXCEPT !.stage = "raw_done", !.outcome = [kind |-> r.err]]
    /\ UNCHANGED parkedVars

RawWriteOutput ==
    /\ fn.stage = "raw_loop" /\ fn.i = Len(fn.recipe)
    /\ fn' = [fn EXCEPT !.stage = "raw_decide",
                        !.output = WriteZip(fn.src.names, fn.st.parts, fn.st.deleted)]
    /\ UNCHANGED parkedVars

RawDecide ==
    /\ fn.stage = "raw_decide"
    /\ fn' = [fn EXCEPT !.stage = "raw_done",
                !.outcome = IF fn.st.errors # <<>> THEN [kind |-> "PatchError"]
                            ELSE IF fn.st.skipped # <<>> THEN [kind |-> "PatchWarning"]
                            ELSE [kind |-> "returned"]]
    /\ UNCHANGED parkedVars

NextRaw ==
    \/ RawIterate
    \/ RawWriteOutput
    \/ RawDecide

SpecRaw == InitRaw /\ [][NextRaw]_vars

\* the op lacks a field its operation requires or has a non-integer occurrence
Malformed(patch) ==
    \/ patch.operation = "literal_replace" /\ "match" \notin DOMAIN patch
    \/ patch.operation = "append_block"
         /\ ("anchor" \notin DOMAIN patch \/ "block" \notin DOMAIN patch)
    \/ patch.operation = "set_part" /\ "content" \notin DOMAIN patch
    \/ "occurrence" \in DOMAIN patch /\ patch.occurrence.t # "int"

\* C28: a run over a recipe with a malformed op processes every op,
\* records a hard error under the malformed op's id, writes the output file
\* and ends in PatchError.
C28_MalformedOpIsPerOpError ==
    fn.stage = "raw_done" =>
        \A k \in 1..Len(fn.recipe) :
            Malformed(fn.recipe[k]) =>
                /\ fn.i = Len(fn.recipe)
                /\ \E e \in Range(fn.st.errors) : e[1] = fn.recipe[k].id
                /\ fn.output.exists
                /\ fn.outcome.kind = "PatchError"
====
